---- MODULE Spec2Model ----
(***************************************************************************)
(* Multi-agent task orchestration of agentic-ui-v0 (backend/app/services/  *)
(* multi_agent.py): MultiAgentService.generate_response, the routed agents *)
(* (MultiAgent._process_task_internal), the coordinator                    *)
(* (MultiAgentCoordinator.handle_agent_response) and the session response  *)
(* store (_session_responses).                                             *)
(*                                                                         *)
(* The message bus is autogen_core's SingleThreadedAgentRuntime: every     *)
(* published message is delivered to the one agent type subscribed to its  *)
(* topic, each delivery an independent asyncio task.  A delivery whose     *)
(* handler raises ends; the runtime logs the error and keeps delivering.   *)
(* Messages in flight are kept in two sets, tasks (UserTask envelopes,     *)
(* queued or being handled) and responses (AgentResponse envelopes).       *)
(***************************************************************************)
EXTENDS Naturals, Sequences, FiniteSets, TLC

\* ------------------------------------------------------------------ bounds

\* The generate_response invocations a run of the service may see.
Calls == {1, 2}

\* Model completions the completion client may return in a run with one
\* generate_response call.
MaxModelCalls == 2

\* Model completions the completion client may return in a run with one
\* generate_response call that follows a delegation chain to its end.
MaxChainModelCalls == 3

\* Model completions the completion client may return in a run with two
\* concurrent generate_response calls.
MaxConcurrentModelCalls == 2

\* Most tool calls the model emits in one turn.
MaxCalls == 2

\* Most tool calls the model emits in one turn of a run with two concurrent
\* generate_response calls.
MaxConcurrentCalls == 1

\* Polls of the response store before giving up: max_wait_time / wait_interval
\* (30 s / 0.1 s in the code), scaled down.
MaxPolls == 1

\* Exchanges (a user message and its reply) a session holds before the chat
\* requests of a run: enough for a history longer than the context limit.
MaxExchanges == 5

\* Longest text given to the response sanitizer, in characters, and the
\* times the sanitizer is applied to its own result.
MaxLen == 3
MaxPasses == 2

\* Chat requests the router serves in a run.
MaxRequests == 3

\* Longest conversation history given to generate_response, in messages.
MaxHistory == 11

\* Longest context of an AgentResponse handed to the coordinator alone, in
\* turns.
MaxTurns == 3

\* ------------------------------------------------------------- vocabulary

NoSession == 0
SessionIds == 1..Cardinality(Calls)

ResearcherAgent == "ResearcherAgent"
SummarizerAgent == "SummarizerAgent"
AgentNames == {ResearcherAgent, SummarizerAgent}

\* Texts are records [t, of]: t names the text, of is the call whose user
\* message the text was produced from (0: from none).
Txt(t, of) == [t |-> t, of |-> of]
EmptyText == Txt("", 0)
NoText == Txt("none", 0)
ApologyText == Txt("couldn't generate a proper response", 0)
ProcessingErrorText == Txt("error processing the response", 0)
TimeoutText == Txt("taking longer than expected", 0)
ConfigErrorText == Txt("Error: Azure configuration is incomplete", 0)
InitErrorText == Txt("Error: initialization", 0)
PublishErrorText == Txt("Error: publish", 0)
TransferredText == Txt("Transferred", 0)
SearchText == Txt("Search results", 0)

\* The new user message of call c.
UserText(c) == Txt("ask", c)

\* ------------------------------------------------------ conversation turns

UserMessage(text) == [k |-> "user", source |-> "user", content |-> text]
AssistantMessage(text, source) == [k |-> "assistant", source |-> source, content |-> text]
AssistantCalls(calls, source) == [k |-> "calls", source |-> source, calls |-> calls]
FunctionExecutionResult(call, content, is_error) ==
    [call_id |-> call.id, content |-> content, is_error |-> is_error, name |-> call.name]
FunctionExecutionResultMessage(results) == [k |-> "results", source |-> "", results |-> results]

IsPrefix(s, t) == Len(s) <= Len(t) /\ \A i \in 1..Len(s) : s[i] = t[i]

\* The call whose user message is the latest user turn of a context.
RECURSIVE LastUserOf(_)
LastUserOf(ctx) ==
    IF ctx = <<>> THEN 0
    ELSE IF ctx[Len(ctx)].k = "user" THEN ctx[Len(ctx)].content.of
    ELSE LastUserOf(SubSeq(ctx, 1, Len(ctx) - 1))

\* --------------------------------------------------------- tool registries

ToolNames(agent) ==
    IF agent = ResearcherAgent THEN {"web_search", "fetch_url_content"} ELSE {}

DelegateToolNames(agent) ==
    IF agent = ResearcherAgent THEN {"transfer_to_summarizer"} ELSE {"transfer_to_researcher"}

transfer_to_summarizer == SummarizerAgent
transfer_to_researcher == ResearcherAgent

\* The topic a delegate tool returns.
DelegateTopic(name) ==
    IF name = "transfer_to_summarizer" THEN transfer_to_summarizer ELSE transfer_to_researcher

\* ------------------------------------------------------- model completions

\* A FunctionCall is [id, name, arguments].  arguments is "ok" (decodes and the
\* tool accepts it), "rejected" (decodes, the tool's run_json raises on it) or
\* "bad_json" (json.loads raises on it).
\* The model emits calls of the tools advertised to it (the agent's direct and
\* delegate tool schemas) and of a tool in neither registry.
CallKinds(agent) ==
    {[name |-> n, arguments |-> a] :
        n \in ToolNames(agent) \ {"fetch_url_content"}, a \in {"ok", "rejected", "bad_json"}}
    \cup {[name |-> n, arguments |-> "ok"] :
            n \in DelegateToolNames(agent) \cup {"lookup_weather"}}

\* Call ids are fresh in the context they answer.
CallId(ctx, i) == Len(ctx) * (MaxCalls + 1) + i

\* The calls of one turn: kinds gives each call's name and arguments.
FunctionCalls(ctx, kinds) ==
    [i \in 1..Len(kinds) |-> [id |-> CallId(ctx, i), name |-> kinds[i].name,
                              arguments |-> kinds[i].arguments]]

\* What the completion client may return for a context: a text (possibly
\* empty) or one or more function calls.
ModelTexts(ctx) == {Txt("reply", LastUserOf(ctx)), EmptyText}

\* ------------------------------------------------------------ envelopes

\* A UserTask on its way to, or being handled by, the agent of its topic.
\* received and model_calls record the delivery: the context as it arrived and
\* the completions requested so far.
UserTask(topic, context, session_id) ==
    [topic |-> topic, session_id |-> session_id, context |-> context,
     received |-> context, model_calls |-> 0]

\* An AgentResponse on its way to the coordinator.
AgentResponse(context, reply_to_topic_type, session_id, task) ==
    [session_id |-> session_id, context |-> context,
     reply_to_topic_type |-> reply_to_topic_type,
     received |-> task.received, model_calls |-> task.model_calls]

Message(role, content) == [role |-> role, content |-> content]

\* ------------------------------------------------ _process_task_internal

\* DelegateMessages with the history trimmed to its first turn.
DelegateMessages_Trimmed(context, call, agent) ==
    <<context[1], AssistantCalls(<<call>>, agent),
      FunctionExecutionResultMessage(
          <<FunctionExecutionResult(call, TransferredText, FALSE)>>)>>

\* The context handed to the delegate target for one delegate call.
DelegateMessages(context, call, agent) ==
    context \o <<AssistantCalls(<<call>>, agent),
                 FunctionExecutionResultMessage(
                     <<FunctionExecutionResult(call, TransferredText, FALSE)>>)>>

\* The delegated task carries the session id of the task being handled.
DelegateTask(task, call) ==
    UserTask(DelegateTopic(call.name),
             DelegateMessages(task.context, call, task.topic),
             task.session_id)

\* The exception that ends a delivery.
Raised(error) == [raised |-> TRUE, error |-> error, results |-> <<>>, targets |-> <<>>]

\* ForEachCall skipping a call of an unknown tool instead of raising.
RECURSIVE ForEachCall_SkipsUnknown(_, _, _, _)
ForEachCall_SkipsUnknown(task, calls, results, targets) ==
    IF calls = <<>>
    THEN [raised |-> FALSE, error |-> "", results |-> results, targets |-> targets]
    ELSE LET call == Head(calls) IN
         IF call.arguments = "bad_json" THEN Raised("JSONDecodeError")
         ELSE IF call.name \in ToolNames(task.topic)
         THEN IF call.arguments = "rejected" THEN Raised("tool error")
              ELSE ForEachCall_SkipsUnknown(task, Tail(calls),
                       Append(results, FunctionExecutionResult(call, SearchText, FALSE)),
                       targets)
         ELSE IF call.name \in DelegateToolNames(task.topic)
         THEN IF call.arguments = "rejected" THEN Raised("tool error")
              ELSE ForEachCall_SkipsUnknown(task, Tail(calls), results,
                       Append(targets, DelegateTask(task, call)))
         ELSE ForEachCall_SkipsUnknown(task, Tail(calls), results, targets)

\* The for loop over the calls of one model turn: the direct tools' results and
\* the delegate targets, or the exception that ends the delivery.
RECURSIVE ForEachCall(_, _, _, _)
ForEachCall(task, calls, results, targets) ==
    IF calls = <<>>
    THEN [raised |-> FALSE, error |-> "", results |-> results, targets |-> targets]
    ELSE LET call == Head(calls) IN
         IF call.arguments = "bad_json" THEN Raised("JSONDecodeError")
         ELSE IF call.name \in ToolNames(task.topic)
         THEN IF call.arguments = "rejected" THEN Raised("tool error")
              ELSE ForEachCall(task, Tail(calls),
                       Append(results, FunctionExecutionResult(call, SearchText, FALSE)),
                       targets)
         ELSE IF call.name \in DelegateToolNames(task.topic)
         THEN IF call.arguments = "rejected" THEN Raised("tool error")
              ELSE ForEachCall(task, Tail(calls), results,
                       Append(targets, DelegateTask(task, call)))
         ELSE Raised("Unknown tool")

\* ExtendedContext without the assistant turn that holds the calls.
ExtendedContext_ResultsOnly(task, calls, results) ==
    task.context \o <<FunctionExecutionResultMessage(results)>>

\* The context after a turn of direct calls only.
ExtendedContext(task, calls, results) ==
    task.context \o <<AssistantCalls(calls, task.topic),
                      FunctionExecutionResultMessage(results)>>

\* The context of the final AgentResponse.
FinalContext(task, text) ==
    Append(task.context, AssistantMessage(text, task.topic))

FinalResponse(task, text) ==
    AgentResponse(FinalContext(task, text), task.topic, task.session_id, task)

\* ------------------------------------------------ handle_agent_response

\* LastAgentTurn scanning from the oldest turn forward.
LastAgentTurn_OldestFirst(ctx) ==
    LET found == {i \in 1..Len(ctx) : ctx[i].source \in AgentNames} IN
    IF found = {} THEN [k |-> "none"]
    ELSE ctx[CHOOSE i \in found : \A j \in found : i <= j]

\* The scan from the most recent turn backward for a turn of a known agent.
RECURSIVE LastAgentTurn(_)
LastAgentTurn(ctx) ==
    IF ctx = <<>> THEN [k |-> "none"]
    ELSE IF ctx[Len(ctx)].source \in AgentNames THEN ctx[Len(ctx)]
    ELSE LastAgentTurn(SubSeq(ctx, 1, Len(ctx) - 1))

\* StoredContent without the fallback for an empty final text.
StoredContent_NoFallback(ctx) ==
    LET turn == LastAgentTurn(ctx) IN
    IF turn.k = "none" THEN ApologyText
    ELSE IF turn.k = "calls" THEN ProcessingErrorText
    ELSE turn.content

\* The content of the message the coordinator stores.
StoredContent(ctx) ==
    LET turn == LastAgentTurn(ctx) IN
    IF turn.k = "none" THEN ApologyText
    ELSE IF turn.k = "calls" THEN ProcessingErrorText
    ELSE IF turn.content = EmptyText THEN ApologyText
    ELSE turn.content

\* StoreResponse with the coordinator writing under the entry created last
\* instead of the response's own session id.
StoreResponse_LatestSession(store, session_id, content) ==
    LET latest == IF DOMAIN store = {} THEN session_id
                  ELSE CHOOSE s \in DOMAIN store : \A o \in DOMAIN store : o <= s IN
    [s \in DOMAIN store \cup {latest} |->
        IF s = latest
        THEN Append(IF latest \in DOMAIN store THEN store[latest] ELSE <<>>,
                    Message("assistant", content))
        ELSE store[s]]

\* StoreResponse keeping the written session's entry only: the entries of the
\* other sessions are dropped.
StoreResponse_OnlyEntry(store, session_id, content) ==
    LET entry == IF session_id \in DOMAIN store THEN store[session_id] ELSE <<>> IN
    [s \in {session_id} |-> Append(entry, Message("assistant", content))]

\* The store after the coordinator's write for one AgentResponse.
StoreResponse(store, session_id, content) ==
    LET entry == IF session_id \in DOMAIN store THEN store[session_id] ELSE <<>> IN
    [s \in DOMAIN store \cup {session_id} |->
        IF s = session_id THEN Append(entry, Message("assistant", content)) ELSE store[s]]

\* The store without one session's entry.
DeleteEntry(store, session_id) ==
    [s \in DOMAIN store \ {session_id} |-> store[s]]

\* NewEntry put off: the entry is not there when the task is published.
NewEntry_Deferred(store, session_id) == store

\* The store with a fresh, empty entry.
NewEntry(store, session_id) ==
    [s \in DOMAIN store \cup {session_id} |-> IF s = session_id THEN <<>> ELSE store[s]]

\* ------------------------------------------------------------------ state

VARIABLES
    is_configured,      \* azure_config.is_configured()
    runtime,            \* MultiAgentService._runtime: "None", "created" or "started"
    session_responses,  \* MultiAgentService._session_responses
    tasks,              \* UserTask envelopes in flight
    responses,          \* AgentResponse envelopes in flight
    pc,                 \* each generate_response call: "unused" (never made),
                        \* "idle" (not yet made), "polling", "done"
    session_id,         \* each call's session id
    total_waited,       \* each call's polls so far
    returned,           \* each call's return value
    next_session,       \* the next fresh session id (uuid4)
    model_budget,       \* completions the model may still return
    writes,             \* per session: coordinator writes so far
    first_reply,        \* per session: kind of the entry task's first completion
    delivery_errors,    \* per session: the exceptions its deliveries ended with
    registered,         \* what _initialize_runtime has done so far: runtimes
                        \* created, agent types registered, subscriptions
                        \* added, runtimes started
    spinning,           \* the deliveries that hold the event loop: in the while
                        \* loop of _process_task_internal with nothing to await
    history,            \* each call's messages argument: the conversation so far
    raw,                \* the text first given to _clean_response_content
    content,            \* the text in hand: raw, then the sanitizer's results
    passes,             \* applications of the sanitizer so far
    sessions,           \* SessionService._sessions: session id -> Session
    chat,               \* each chat request: where it stands, what it carries
    next_uuid,          \* the next fresh Session.id (uuid4)
    multi_agent_available   \* MULTI_AGENT_AVAILABLE of the chat router

\* The state of MultiAgentService, its agents and its bus.
service_vars == <<is_configured, runtime, session_responses, tasks, responses, pc,
                  session_id, total_waited, returned, next_session, model_budget,
                  writes, first_reply, delivery_errors, registered, spinning,
                  history>>

\* The state of a run of the response sanitizer.
sanitizer_vars == <<raw, content, passes>>

\* The state of the chat router and of the session service.
chat_vars == <<sessions, chat, next_uuid, multi_agent_available>>

\* What a step of the service that ends at an await, a return or a raise
\* leaves alone.
beside_service == <<sanitizer_vars, chat_vars, spinning, history>>

vars == <<service_vars, sanitizer_vars, chat_vars>>

\* What _initialize_runtime has done once it has passed step of its steps after
\* the configuration check: the model client (step 0 fails there, or at the
\* runtime's construction), the runtime, three registrations, three
\* subscriptions, the start.
InitializationSteps == 8
Registrations(step) ==
    [runtimes      |-> IF step >= 1 THEN 1 ELSE 0,
     agents        |-> IF step >= 4 THEN 3 ELSE IF step >= 1 THEN step - 1 ELSE 0,
     subscriptions |-> IF step >= 7 THEN 3 ELSE IF step >= 4 THEN step - 4 ELSE 0,
     starts        |-> IF step >= 8 THEN 1 ELSE 0]

\* The registrations so far, after one more run of _initialize_runtime.
Registered(before, done) ==
    [runtimes      |-> before.runtimes + done.runtimes,
     agents        |-> before.agents + done.agents,
     subscriptions |-> before.subscriptions + done.subscriptions,
     starts        |-> before.starts + done.starts]

\* The state after MultiAgentService.__init__, for a run in which the calls of
\* made are made and the model returns at most budget completions.
InitService(made, budget) ==
    /\ is_configured \in BOOLEAN
    /\ runtime = "None"
    /\ session_responses = <<>>
    /\ tasks = {}
    /\ responses = {}
    /\ pc = [c \in Calls |-> IF c \in made THEN "idle" ELSE "unused"]
    /\ session_id = [c \in Calls |-> NoSession]
    /\ total_waited = [c \in Calls |-> 0]
    /\ returned = [c \in Calls |-> NoText]
    /\ next_session = 1
    /\ model_budget = budget
    /\ writes = [s \in SessionIds |-> 0]
    /\ first_reply = [s \in SessionIds |-> "none"]
    /\ delivery_errors = [s \in SessionIds |-> {}]
    /\ registered = Registrations(0)
    /\ spinning = {}
    /\ history = [c \in Calls |-> <<>>]

\* No text is being sanitized.
NoSanitizing == raw = <<>> /\ content = <<>> /\ passes = 0

\* The chat requests of a run and the request before it is received.
ChatRequests == 1..MaxRequests
NoRequest ==
    [pc |-> "idle", endpoint |-> "none", session_id |-> NoSession,
     session |-> NoSession, response |-> NoText, response_session_id |-> NoSession,
     listing |-> <<>>, context |-> <<>>, error |-> "none", status_code |-> 0]

\* The session service after SessionService.__init__, no request received;
\* available is the outcome of the router's import of the multi-agent service.
InitChat(available) ==
    /\ sessions = <<>>
    /\ chat = [r \in ChatRequests |-> NoRequest]
    /\ next_uuid = 1
    /\ multi_agent_available = available

\* No chat request is served.
NoChat == InitChat(TRUE)

InitWith(made, budget) == InitService(made, budget) /\ NoSanitizing /\ NoChat

\* One generate_response call.
Init == InitWith({1}, MaxModelCalls)

\* One generate_response call, with completions enough for a chain of three
\* hops or for a turn of two delegations to finish.
InitChain == InitWith({1}, MaxChainModelCalls)

\* Two concurrent generate_response calls.
InitConcurrent == InitWith(Calls, MaxConcurrentModelCalls)

\* ------------------------------------------------------ generate_response

Return(c, text) ==
    /\ pc' = [pc EXCEPT ![c] = "done"]
    /\ returned' = [returned EXCEPT ![c] = text]

\* _initialize_runtime raises on the configuration check; the except clause of
\* generate_response turns the error into the returned text.
ConfigurationError(c) ==
    /\ pc[c] = "idle"
    /\ runtime = "None"
    /\ ~is_configured
    /\ Return(c, ConfigErrorText)
    /\ UNCHANGED <<beside_service, registered, is_configured, runtime, session_responses, tasks, responses,
                   session_id, total_waited, next_session, model_budget, writes,
                   first_reply,
                   delivery_errors>>

\* _initialize_runtime raises after the configuration check: before the runtime
\* is assigned (the runtime stays None) or after it (the runtime stays created,
\* never started).
InitializationError(c) ==
    /\ pc[c] = "idle"
    /\ runtime = "None"
    /\ is_configured
    /\ \E step \in 0..(InitializationSteps - 1) :
          /\ registered' = Registered(registered, Registrations(step))
          /\ runtime' = IF step = 0 THEN "None" ELSE "created"
    /\ Return(c, InitErrorText)
    /\ UNCHANGED <<beside_service, is_configured, session_responses, tasks, responses, session_id,
                   total_waited, next_session, model_budget, writes, first_reply,
                   delivery_errors>>

\* NeedsInitialization without the guard: every call initializes again.
NeedsInitialization_Always == TRUE

\* The guard of _initialize_runtime.
NeedsInitialization == runtime = "None"

\* The runtime after _initialize_runtime returns normally.
InitializedRuntime == IF runtime = "None" THEN "started" ELSE runtime

\* The registrations after _initialize_runtime returns normally.
InitializedRegistrations ==
    IF NeedsInitialization
    THEN Registered(registered, Registrations(InitializationSteps))
    ELSE registered

\* The messages of the history taken into the initial task.
HistoryLimit == 10

\* RecentMessages taking the oldest messages of a long history.
RecentMessages_Oldest(messages) ==
    IF Len(messages) > HistoryLimit THEN SubSeq(messages, 1, HistoryLimit) ELSE messages

\* messages[-10:] if len(messages) > 10 else messages
RecentMessages(messages) ==
    IF Len(messages) > HistoryLimit
    THEN SubSeq(messages, Len(messages) - HistoryLimit + 1, Len(messages))
    ELSE messages

\* The conversion of one message of the history.
AutogenMessage(msg) ==
    IF msg.role = "user" THEN [k |-> "user", source |-> msg.role, content |-> msg.content]
    ELSE AssistantMessage(msg.content, msg.role)

\* autogen_messages: the recent history converted, then the new user message.
AutogenMessages(messages, user_message) ==
    LET recent_messages == RecentMessages(messages) IN
    [i \in 1..Len(recent_messages) |-> AutogenMessage(recent_messages[i])]
        \o <<UserMessage(user_message)>>

\* The initial task: the recent history and the new user message, published
\* to the Researcher topic.
InitialTask(c, sid) ==
    UserTask(ResearcherAgent, AutogenMessages(history[c], UserText(c)), sid)

\* Initialization (when needed), a fresh session id, the empty store entry and
\* the publication of the initial task.
PublishTask(c) ==
    /\ pc[c] = "idle"
    /\ runtime # "None" \/ is_configured
    /\ runtime' = InitializedRuntime
    /\ session_id' = [session_id EXCEPT ![c] = next_session]
    /\ next_session' = next_session + 1
    /\ session_responses' = NewEntry(session_responses, next_session)
    /\ tasks' = tasks \cup {InitialTask(c, next_session)}
    /\ pc' = [pc EXCEPT ![c] = "polling"]
    /\ registered' = InitializedRegistrations
    /\ UNCHANGED <<beside_service, is_configured, responses, total_waited, returned, model_budget,
                   writes, first_reply,
                   delivery_errors>>

\* As PublishTask, with publish_message raising: the entry stays, nothing is
\* published and the error text is returned.
PublishError(c) ==
    /\ pc[c] = "idle"
    /\ runtime # "None" \/ is_configured
    /\ runtime' = InitializedRuntime
    /\ session_id' = [session_id EXCEPT ![c] = next_session]
    /\ next_session' = next_session + 1
    /\ session_responses' = NewEntry(session_responses, next_session)
    /\ Return(c, PublishErrorText)
    /\ registered' = InitializedRegistrations
    /\ UNCHANGED <<beside_service, is_configured, tasks, responses, total_waited, model_budget,
                   writes, first_reply,
                   delivery_errors>>

\* _initialize_runtime taken one await at a time.  Up to its first await: the
\* guard, the configuration check, the model client and the assignment of
\* self._runtime.
BeginInitialization(c) ==
    /\ pc[c] = "idle"
    /\ NeedsInitialization
    /\ is_configured
    /\ runtime' = "created"
    /\ registered' = Registered(registered, Registrations(1))
    /\ pc' = [pc EXCEPT ![c] = "initializing"]
    /\ UNCHANGED <<beside_service, is_configured, session_responses, tasks, responses,
                   session_id, total_waited, returned, next_session, model_budget,
                   writes, first_reply, delivery_errors>>

\* One more awaited step of _initialize_runtime returns: an agent type is
\* registered, or one of the first two subscriptions is added.
AdvanceInitialization(c) ==
    /\ pc[c] = "initializing"
    /\ registered.agents + registered.subscriptions < 5
    /\ registered' =
         IF registered.agents < 3
         THEN [registered EXCEPT !.agents = @ + 1]
         ELSE [registered EXCEPT !.subscriptions = @ + 1]
    /\ UNCHANGED <<beside_service, is_configured, runtime, session_responses, tasks,
                   responses, pc, session_id, total_waited, returned, next_session,
                   model_budget, writes, first_reply, delivery_errors>>

\* The last await of _initialize_runtime returns: the third subscription is
\* added and the runtime started; generate_response goes on, with no await
\* in between, to the session id, the entry and the publication of its task.
FinishInitialization(c) ==
    /\ pc[c] = "initializing"
    /\ registered.agents + registered.subscriptions = 5
    /\ registered' = [registered EXCEPT !.subscriptions = @ + 1, !.starts = @ + 1]
    /\ runtime' = "started"
    /\ session_id' = [session_id EXCEPT ![c] = next_session]
    /\ next_session' = next_session + 1
    /\ session_responses' = NewEntry(session_responses, next_session)
    /\ tasks' = tasks \cup {InitialTask(c, next_session)}
    /\ pc' = [pc EXCEPT ![c] = "polling"]
    /\ UNCHANGED <<beside_service, is_configured, responses, total_waited, returned,
                   model_budget, writes, first_reply, delivery_errors>>

\* An awaited step of _initialize_runtime raises: the except clause logs and
\* raises again, generate_response returns the error text, the runtime stays
\* as it is.
InitializationFails(c) ==
    /\ pc[c] = "initializing"
    /\ Return(c, InitErrorText)
    /\ UNCHANGED <<beside_service, registered, is_configured, runtime, session_responses,
                   tasks, responses, session_id, total_waited, next_session,
                   model_budget, writes, first_reply, delivery_errors>>

\* The text the poll loop returns for a non-empty entry.
FinalResponseText(final_messages) == final_messages[Len(final_messages)].content

\* Cleanup emptying the session's entry instead of deleting it.
Cleanup_Empties(store, sid) ==
    [s \in DOMAIN store |-> IF s = sid THEN <<>> ELSE store[s]]

\* The store after the poll loop has read a non-empty entry.
Cleanup(store, sid) == DeleteEntry(store, sid)

\* The loop condition of the poll loop.
StillWaiting(c) ==
    \/ session_id[c] \notin DOMAIN session_responses
    \/ session_responses[session_id[c]] = <<>>

\* CeilingReached off by one: the loop sleeps once more than the ceiling allows.
CeilingReached_Late(c) == total_waited[c] > MaxPolls

\* The ceiling test of the poll loop.
CeilingReached(c) == total_waited[c] >= MaxPolls

\* Poll with a give-up that cleans up: the session's entry is deleted when the
\* ceiling is reached.
Poll_CleansUpOnTimeout(c) ==
    /\ pc[c] = "polling"
    /\ IF StillWaiting(c)
       THEN IF CeilingReached(c)
            THEN /\ Return(c, TimeoutText)
                 /\ session_responses' = DeleteEntry(session_responses, session_id[c])
                 /\ UNCHANGED total_waited
            ELSE /\ total_waited' = [total_waited EXCEPT ![c] = @ + 1]
                 /\ UNCHANGED <<pc, returned, session_responses>>
       ELSE /\ Return(c, FinalResponseText(session_responses[session_id[c]]))
            /\ session_responses' = Cleanup(session_responses, session_id[c])
            /\ UNCHANGED total_waited
    /\ UNCHANGED <<beside_service, registered, is_configured, runtime, tasks, responses, session_id,
                   next_session, model_budget, writes, first_reply, delivery_errors>>

\* One evaluation of the poll loop: sleep once more, give up, or return the
\* stored response.
Poll(c) ==
    /\ pc[c] = "polling"
    /\ IF StillWaiting(c)
       THEN IF CeilingReached(c)
            THEN /\ Return(c, TimeoutText)
                 /\ UNCHANGED <<total_waited, session_responses>>
            ELSE /\ total_waited' = [total_waited EXCEPT ![c] = @ + 1]
                 /\ UNCHANGED <<pc, returned, session_responses>>
       ELSE /\ Return(c, FinalResponseText(session_responses[session_id[c]]))
            /\ session_responses' = Cleanup(session_responses, session_id[c])
            /\ UNCHANGED total_waited
    /\ UNCHANGED <<beside_service, registered, is_configured, runtime, tasks, responses, session_id, next_session,
                   model_budget, writes, first_reply,
                   delivery_errors>>

\* ------------------------------------------------------------ routed agents

\* The entry task of a session: the one generate_response published.
IsEntryTask(task) ==
    /\ task.topic = ResearcherAgent
    /\ \A i \in 1..Len(task.received) : task.received[i].k \in {"user", "assistant"}

\* The task once the completion client has returned once more.
Completed(task) == [task EXCEPT !.model_calls = @ + 1]

\* The kind of the entry task's first completion, recorded per session.
FirstReply(task, kind) ==
    IF IsEntryTask(task) /\ task.model_calls = 0
    THEN [first_reply EXCEPT ![task.session_id] = kind]
    ELSE first_reply

\* The exceptions recorded once a delivery of task has ended with error.
Recorded(task, error) ==
    [delivery_errors EXCEPT ![task.session_id] = @ \cup {error}]

\* The completion client raises: the handler raises and the delivery ends.
ModelError(task) ==
    /\ runtime = "started"
    /\ model_budget > 0
    /\ model_budget' = model_budget - 1
    /\ tasks' = tasks \ {task}
    /\ first_reply' = FirstReply(task, "error")
    /\ delivery_errors' = Recorded(task, "model error")
    /\ UNCHANGED <<beside_service, registered, is_configured, runtime, session_responses, responses, pc, session_id,
                   total_waited, returned, next_session, writes>>

\* ModelText with the agent going on after its final answer: the response is
\* published and the task still awaits a completion.
ModelText_Continues(task, text) ==
    /\ runtime = "started"
    /\ model_budget > 0
    /\ model_budget' = model_budget - 1
    /\ tasks' = (tasks \ {task}) \cup {Completed(task)}
    /\ responses' = responses \cup {FinalResponse(Completed(task), text)}
    /\ first_reply' = FirstReply(task, "text")
    /\ UNCHANGED <<beside_service, registered, is_configured, runtime, session_responses, pc, session_id,
                   total_waited, returned, next_session, writes,
                   delivery_errors>>

\* The completion client returns text: the final AgentResponse goes to the
\* coordinator and the delivery ends.
ModelText(task, text) ==
    /\ runtime = "started"
    /\ model_budget > 0
    /\ model_budget' = model_budget - 1
    /\ tasks' = tasks \ {task}
    /\ responses' = responses \cup {FinalResponse(Completed(task), text)}
    /\ first_reply' = FirstReply(task, "text")
    /\ UNCHANGED <<beside_service, registered, is_configured, runtime, session_responses, pc, session_id,
                   total_waited, returned, next_session, writes,
                   delivery_errors>>

\* AfterToolLoop with an exception that takes the bus down: the raising
\* delivery ends and so does every other delivery in flight.
AfterToolLoop_AbortsAll(task, calls) ==
    LET r == ForEachCall(task, calls, <<>>, <<>>) IN
    IF r.raised THEN {}
    ELSE IF Len(r.targets) > 0
    THEN (tasks \ {task}) \cup {r.targets[i] : i \in 1..Len(r.targets)}
    ELSE IF Len(r.results) > 0
    THEN (tasks \ {task}) \cup
           {[Completed(task) EXCEPT !.context = ExtendedContext(task, calls, r.results)]}
    ELSE tasks

\* The tasks in flight after one pass of the while loop over a turn of calls:
\* the delivery ends on an exception, ends having published the delegated
\* tasks, or awaits the next completion with the extended context.
AfterToolLoop(task, calls) ==
    LET r == ForEachCall(task, calls, <<>>, <<>>) IN
    IF r.raised THEN tasks \ {task}
    ELSE IF Len(r.targets) > 0
    THEN (tasks \ {task}) \cup {r.targets[i] : i \in 1..Len(r.targets)}
    ELSE IF Len(r.results) > 0
    THEN (tasks \ {task}) \cup
           {[Completed(task) EXCEPT !.context = ExtendedContext(task, calls, r.results)]}
    ELSE tasks

\* The exceptions recorded after that pass.
ErrorsAfterToolLoop(task, calls) ==
    LET r == ForEachCall(task, calls, <<>>, <<>>) IN
    IF r.raised THEN Recorded(task, r.error) ELSE delivery_errors

\* The completion client returns function calls: one pass of the while loop.
ModelCalls(task, calls) ==
    /\ runtime = "started"
    /\ model_budget > 0
    /\ model_budget' = model_budget - 1
    /\ tasks' = AfterToolLoop(task, calls)
    /\ first_reply' = FirstReply(task, "calls")
    /\ delivery_errors' = ErrorsAfterToolLoop(task, calls)
    /\ UNCHANGED <<beside_service, registered, is_configured, runtime, session_responses, responses, pc, session_id,
                   total_waited, returned, next_session, writes>>

\* The completion client returns an empty list of calls.  The while condition
\* holds (all() of an empty list), the for loop does nothing, neither list
\* fills and the loop goes round with the same result: no await, no return, no
\* raise.  The delivery holds the event loop from then on.
ModelNoCalls(task) ==
    /\ runtime = "started"
    /\ model_budget > 0
    /\ model_budget' = model_budget - 1
    /\ tasks' = AfterToolLoop(task, <<>>)
    /\ spinning' = spinning \cup {task}
    /\ first_reply' = FirstReply(task, "calls")
    /\ delivery_errors' = ErrorsAfterToolLoop(task, <<>>)
    /\ UNCHANGED <<sanitizer_vars, chat_vars, history, registered, is_configured,
                   runtime, session_responses, responses, pc, session_id,
                   total_waited, returned, next_session, writes>>

\* -------------------------------------------------------------- coordinator

\* HandleAgentResponse with the caller's give-up cancelling the work: the
\* response of a session whose call has returned is dropped, not stored.
HandleAgentResponse_DropsLate(message) ==
    /\ runtime = "started"
    /\ responses' = responses \ {message}
    /\ IF \E c \in Calls : session_id[c] = message.session_id /\ pc[c] = "done"
       THEN UNCHANGED <<session_responses, writes>>
       ELSE /\ session_responses' =
                 StoreResponse(session_responses, message.session_id,
                               StoredContent(message.context))
            /\ writes' = [writes EXCEPT ![message.session_id] = @ + 1]
    /\ UNCHANGED <<beside_service, registered, is_configured, runtime, tasks, pc, session_id,
                   total_waited, returned, next_session, model_budget, first_reply,
                   delivery_errors>>

\* handle_agent_response: one message appended to the session's entry.
HandleAgentResponse(message) ==
    /\ runtime = "started"
    /\ responses' = responses \ {message}
    /\ session_responses' =
         StoreResponse(session_responses, message.session_id,
                       StoredContent(message.context))
    /\ writes' = [writes EXCEPT ![message.session_id] = @ + 1]
    /\ UNCHANGED <<beside_service, registered, is_configured, runtime, tasks, pc, session_id, total_waited,
                   returned, next_session, model_budget, first_reply,
                   delivery_errors>>

\* The turns of the contexts handed to the coordinator alone: the user's
\* message, an assistant turn of the history, a text (possibly empty) of either
\* agent, a turn of calls and its tool-result turn.
SummaryText == Txt("summary", 1)
CoordinatorTurns ==
    LET call == [id |-> 1, name |-> "web_search", arguments |-> "ok"] IN
    {UserMessage(UserText(1)),
     AssistantMessage(Txt("reply", 1), "assistant"),
     AssistantMessage(Txt("reply", 1), ResearcherAgent),
     AssistantMessage(SummaryText, SummarizerAgent),
     AssistantMessage(EmptyText, ResearcherAgent),
     AssistantMessage(EmptyText, SummarizerAgent),
     AssistantCalls(<<call>>, ResearcherAgent),
     FunctionExecutionResultMessage(<<FunctionExecutionResult(call, SearchText, FALSE)>>)}

\* The contexts of at most n turns.
Contexts(n) == UNION {[1..m -> CoordinatorTurns] : m \in 0..n}

\* The coordinator with one AgentResponse delivered to it, of any context, for
\* a session whose call is polling: the session's entry is empty, holds a
\* message already, or is gone.
InitCoordinator ==
    /\ is_configured = TRUE
    /\ runtime = "started"
    /\ registered = Registrations(InitializationSteps)
    /\ spinning = {}
    /\ history = [c \in Calls |-> <<>>]
    /\ tasks = {}
    /\ \E context \in Contexts(MaxTurns) : \E agent \in AgentNames :
          responses = {AgentResponse(context, agent, 1,
                                     UserTask(agent, <<UserMessage(UserText(1))>>, 1))}
    /\ session_responses \in
          {<<>>, NewEntry(<<>>, 1), StoreResponse(<<>>, 1, Txt("reply", 1))}
    /\ pc = [c \in Calls |-> IF c = 1 THEN "polling" ELSE "unused"]
    /\ session_id = [c \in Calls |-> IF c = 1 THEN 1 ELSE NoSession]
    /\ total_waited = [c \in Calls |-> 0]
    /\ returned = [c \in Calls |-> NoText]
    /\ next_session = 2
    /\ model_budget = 0
    /\ writes = [s \in SessionIds |-> 0]
    /\ first_reply = [s \in SessionIds |-> "none"]
    /\ delivery_errors = [s \in SessionIds |-> {}]
    /\ NoSanitizing
    /\ NoChat

NextCoordinator == \E message \in responses : HandleAgentResponse(message)

SpecCoordinator == InitCoordinator /\ [][NextCoordinator]_vars

\* ------------------------------------------------------ response sanitizer

\* Texts given to the sanitizer are sequences of characters.  The wrapper
\* prefix "TextMessage(" (12 characters, content[12:]) is one element; no other
\* character of the alphabet is part of it.
TextMessageOpen == "TextMessage("
CloseParen == ")"
Quote == "\""
Apostrophe == "'"
Backslash == "\\"
Space == " "
Newline == "\n"
Tab == "\t"
CarriageReturn == "\r"

\* What str.strip() and str.split() take for whitespace.
Whitespace == {Space, Newline, Tab, CarriageReturn}

\* The characters of the texts given to the sanitizer.
Chars == {TextMessageOpen, CloseParen, Quote, Apostrophe, Backslash, "n", "a",
          Space, Newline}

\* The fixed apology, "I apologize, but I couldn't generate a response.", its
\* words as single elements.
Apology == <<"I", Space, "apologize,", Space, "but", Space, "I", Space, "couldn't",
             Space, "generate", Space, "a", Space, "response.">>

StartsWith(s, c) == Len(s) > 0 /\ s[1] = c
EndsWith(s, c) == Len(s) > 0 /\ s[Len(s)] = c

\* content[12:] after the wrapper prefix, and content[:-1] when a ")" ends it.
Unwrapped(s) ==
    IF StartsWith(s, TextMessageOpen)
    THEN LET rest == Tail(s) IN
         IF EndsWith(rest, CloseParen) THEN SubSeq(rest, 1, Len(rest) - 1) ELSE rest
    ELSE s

\* The escapes json.loads accepts in a string, among the characters of Chars
\* and of the manual replacements, and what they decode to.
JsonEscaped == {Quote, Backslash, "n", "t", "r"}
JsonDecoded(c) ==
    CASE c = Quote -> Quote
      [] c = Backslash -> Backslash
      [] c = "n" -> Newline
      [] c = "t" -> Tab
      [] c = "r" -> CarriageReturn

\* json.loads on the characters s[i..n] between the enclosing quotes: a quote
\* ends the string early, a raw control character or an unknown escape is
\* rejected, a backslash before the closing quote leaves the string open.
RECURSIVE JsonString(_, _, _, _)
JsonString(s, i, n, decoded) ==
    IF i > n THEN [ok |-> TRUE, value |-> decoded]
    ELSE IF s[i] = Quote \/ s[i] \in {Newline, Tab, CarriageReturn}
    THEN [ok |-> FALSE, value |-> <<>>]
    ELSE IF s[i] = Backslash
    THEN IF i + 1 <= n /\ s[i + 1] \in JsonEscaped
         THEN JsonString(s, i + 2, n, Append(decoded, JsonDecoded(s[i + 1])))
         ELSE [ok |-> FALSE, value |-> <<>>]
    ELSE JsonString(s, i + 1, n, Append(decoded, s[i]))

\* json.loads(content) for a content that starts and ends with a quote.
json_loads(s) ==
    IF Len(s) < 2 THEN [ok |-> FALSE, value |-> <<>>]
    ELSE JsonString(s, 2, Len(s) - 1, <<>>)

\* str.replace of the two characters a b by r, left to right.
RECURSIVE Replace(_, _, _, _)
Replace(s, a, b, r) ==
    IF Len(s) < 2 THEN s
    ELSE IF s[1] = a /\ s[2] = b
    THEN <<r>> \o Replace(SubSeq(s, 3, Len(s)), a, b, r)
    ELSE <<s[1]>> \o Replace(Tail(s), a, b, r)

\* The replacements of the except branch, in the order of the code.
ManualUnescape(s) ==
    LET s1 == Replace(s, Backslash, "n", Newline)
        s2 == Replace(s1, Backslash, "t", Tab)
        s3 == Replace(s2, Backslash, "r", CarriageReturn)
        s4 == Replace(s3, Backslash, Quote, Quote)
        s5 == Replace(s4, Backslash, Apostrophe, Apostrophe)
    IN  Replace(s5, Backslash, Backslash, Backslash)

\* The try block: JSON decoding for a quoted content, the manual replacements
\* when the decoding fails, nothing for a content that is not quoted.
Unescaped(s) ==
    IF StartsWith(s, Quote) /\ EndsWith(s, Quote)
    THEN IF json_loads(s).ok THEN json_loads(s).value ELSE ManualUnescape(s)
    ELSE s

\* str.strip().
RECURSIVE Strip(_)
Strip(s) ==
    IF s = <<>> THEN s
    ELSE IF s[1] \in Whitespace THEN Strip(Tail(s))
    ELSE IF s[Len(s)] \in Whitespace THEN Strip(SubSeq(s, 1, Len(s) - 1))
    ELSE s

\* content[1:-1] for a content in matching quotes.
Unquoted(s) ==
    IF \/ StartsWith(s, Quote) /\ EndsWith(s, Quote)
       \/ StartsWith(s, Apostrophe) /\ EndsWith(s, Apostrophe)
    THEN SubSeq(s, 2, Len(s) - 1)
    ELSE s

\* str.split(): the words of s, word being the word in hand.
RECURSIVE Split(_, _, _)
Split(s, word, words) ==
    LET closed == IF word = <<>> THEN words ELSE Append(words, word) IN
    IF s = <<>> THEN closed
    ELSE IF s[1] \in Whitespace THEN Split(Tail(s), <<>>, closed)
    ELSE Split(Tail(s), Append(word, s[1]), words)

\* ' '.join(words).
RECURSIVE Join(_)
Join(words) ==
    IF words = <<>> THEN <<>>
    ELSE IF Len(words) = 1 THEN words[1]
    ELSE words[1] \o <<Space>> \o Join(Tail(words))

\* _clean_response_content.
clean_response_content(s) ==
    IF s = <<>> THEN Apology
    ELSE LET cleaned == Join(Split(Unquoted(Strip(Unescaped(Unwrapped(s)))), <<>>, <<>>)) IN
         IF cleaned = <<>> THEN Apology ELSE cleaned

\* The texts of at most n characters.
Texts(n) == UNION {[1..k -> Chars] : k \in 0..n}

\* A raw model output is given to the sanitizer.
InitSanitizer ==
    /\ InitService({}, 0)
    /\ is_configured
    /\ raw \in Texts(MaxLen)
    /\ content = raw
    /\ passes = 0
    /\ NoChat

\* The sanitizer is applied to the text in hand.
CleanResponseContent ==
    /\ passes < MaxPasses
    /\ content' = clean_response_content(content)
    /\ passes' = passes + 1
    /\ UNCHANGED <<service_vars, chat_vars, raw>>

SpecSanitizer == InitSanitizer /\ [][CleanResponseContent]_vars

\* ------------------------------------------- chat router, session service

\* A session id no Session was created with.
UnknownSession == MaxRequests + 1

Endpoints == {"single", "multi"}

\* The message of request r and the texts its generate_response call comes
\* back with: the agents' reply, or the router's text for an exception.
RequestMessage(r) == Txt("ask", r)
TroubleText(r) == Txt("trouble", r)
Replies(r) == {Txt("reply", r), TroubleText(r)}

\* The session ids the service has returned in a ChatResponse.
ReturnedSessionIds ==
    {chat[r].response_session_id : r \in {q \in ChatRequests : chat[q].pc = "done"}}

\* Session(user_details=...): a new session and its fresh id.
Session(id) == [id |-> id, messages |-> <<>>]

\* Message(content=..., role=...): __init__ gives the message a fresh id and
\* the time of its creation.  The uuid4 is named by the session the message
\* is made for and its number there; the clock's reading is that number.
NewMessage(store, id, role, text) ==
    LET n == Len(store[id].messages) + 1 IN
    [id |-> <<id, n>>, content |-> text, role |-> role, timestamp |-> n]

\* get_or_create_session finding no session whatever id is given.
get_or_create_session_AlwaysNew(requested) == next_uuid

\* get_or_create_session making the session it does not find under the id it
\* was given.
get_or_create_session_UnderSupplied(requested) ==
    IF requested # NoSession THEN requested ELSE next_uuid

\* SessionService.get_or_create_session: the id of the session it returns.
get_or_create_session(requested) ==
    IF requested # NoSession /\ requested \in DOMAIN sessions
    THEN requested
    ELSE next_uuid

\* The sessions after get_or_create_session has returned session id.
WithSession(store, id) ==
    IF id \in DOMAIN store THEN store
    ELSE [s \in DOMAIN store \cup {id} |-> IF s = id THEN Session(id) ELSE store[s]]

\* add_message with one messages list shared by all sessions: the message
\* shows in every session.
add_message_SharedList(store, id, text, role) ==
    [s \in DOMAIN store |->
        [store[s] EXCEPT !.messages = Append(@, NewMessage(store, id, role, text))]]

\* add_message putting the new message first.
add_message_Prepends(store, id, text, role) ==
    [store EXCEPT ![id].messages = <<NewMessage(store, id, role, text)>> \o @]

\* SessionService.add_message, for a session that exists.
add_message(store, id, text, role) ==
    [store EXCEPT ![id].messages = Append(@, NewMessage(store, id, role, text))]

\* SessionService.get_messages, for a session that exists.
get_messages(store, id) == store[id].messages

\* The test add_message and get_messages start with: a session id that is not
\* in the store makes them raise ValueError("Session ... not found").
SessionFound(store, id) == id \in DOMAIN store

\* The messages get_conversation_context returns at most.
ContextLimit == 10

\* SessionService.get_conversation_context, for a session that exists.
get_conversation_context(store, id) ==
    LET messages == get_messages(store, id) IN
    IF Len(messages) > ContextLimit
    THEN SubSeq(messages, Len(messages) - ContextLimit + 1, Len(messages))
    ELSE messages

\* ExcludeLast keeping the message just added.
ExcludeLast_KeepsAll(conversation_context) == conversation_context

\* conversation_context[:-1]: the context without the message just added.
ExcludeLast(conversation_context) ==
    SubSeq(conversation_context, 1, Len(conversation_context) - 1)

\* What generate_response makes of the router's two arguments: the context
\* the agents are handed.
HandedContext(store, id, user_message) ==
    AutogenMessages(ExcludeLast(get_conversation_context(store, id)), user_message)

\* The body of the listing endpoint's answer.
Listing(messages) ==
    [i \in 1..Len(messages) |->
        [id |-> messages[i].id, content |-> messages[i].content,
         role |-> messages[i].role, timestamp |-> messages[i].timestamp]]

\* Requests are numbered in the order the router receives them.
NextReceived(r) ==
    /\ chat[r].pc = "idle"
    /\ \A q \in 1..(r - 1) : chat[q].pc # "idle"

\* The router finds the multi-agent service missing: 503, no session touched.
ChatUnavailable(r) ==
    /\ NextReceived(r)
    /\ ~multi_agent_available
    /\ chat' = [chat EXCEPT ![r] = [@ EXCEPT !.pc = "failed", !.endpoint = "multi",
                                             !.status_code = 503]]
    /\ UNCHANGED <<service_vars, sanitizer_vars, sessions, next_uuid,
                   multi_agent_available>>

\* _process_chat_internal and _process_multi_agent_chat_internal up to the
\* await of generate_response: the session is found or created and the user
\* message added to it.
ChatReceive(r, endpoint, requested) ==
    /\ NextReceived(r)
    /\ endpoint = "multi" => multi_agent_available
    /\ LET id == get_or_create_session(requested) IN
        /\ sessions' = add_message(WithSession(sessions, id), id, RequestMessage(r), "user")
        /\ next_uuid' = IF id = next_uuid THEN next_uuid + 1 ELSE next_uuid
        /\ chat' = [chat EXCEPT ![r] =
                      [@ EXCEPT !.pc = "generating", !.endpoint = endpoint,
                                !.session_id = requested, !.session = id,
                                !.context = HandedContext(sessions', id, RequestMessage(r))]]
    /\ UNCHANGED <<service_vars, sanitizer_vars, multi_agent_available>>

\* The rest of the handler: generate_response has come back with text (or its
\* exception was turned into text), the reply is added to the session and the
\* ChatResponse carries the session's id.  A session gone from the store makes
\* add_message raise: 500.
ChatRespond(r, text) ==
    /\ chat[r].pc = "generating"
    /\ IF SessionFound(sessions, chat[r].session)
       THEN /\ sessions' = add_message(sessions, chat[r].session, text, "assistant")
            /\ chat' = [chat EXCEPT ![r] =
                          [@ EXCEPT !.pc = "done", !.response = text,
                                    !.response_session_id = chat[r].session,
                                    !.status_code = 200]]
       ELSE /\ chat' = [chat EXCEPT ![r] = [@ EXCEPT !.pc = "failed", !.error = "not found",
                                                    !.status_code = 500]]
            /\ UNCHANGED sessions
    /\ UNCHANGED <<service_vars, sanitizer_vars, next_uuid, multi_agent_available>>

\* GET /sessions/{session_id}/messages: the session's messages are listed, or
\* 404 for a session the service does not hold.
GetMessages(r, requested) ==
    /\ NextReceived(r)
    /\ IF SessionFound(sessions, requested)
       THEN chat' = [chat EXCEPT ![r] =
                       [@ EXCEPT !.pc = "listed", !.endpoint = "messages",
                                 !.session_id = requested, !.session = requested,
                                 !.listing = Listing(get_messages(sessions, requested)),
                                 !.status_code = 200]]
       ELSE chat' = [chat EXCEPT ![r] =
                       [@ EXCEPT !.pc = "failed", !.endpoint = "messages",
                                 !.session_id = requested, !.error = "not found",
                                 !.status_code = 404]]
    /\ UNCHANGED <<service_vars, sanitizer_vars, sessions, next_uuid,
                   multi_agent_available>>

\* The router and the session service at start-up.
InitRouter ==
    /\ InitService({}, 0)
    /\ is_configured
    /\ NoSanitizing
    /\ \E available \in BOOLEAN : InitChat(available)

\* The session service called on its own.  get_or_create_session: the session
\* of a known id is returned, any other id (or none) makes a new session.
GetOrCreateSession(r, requested) ==
    /\ NextReceived(r)
    /\ LET id == get_or_create_session(requested) IN
        /\ sessions' = WithSession(sessions, id)
        /\ next_uuid' = IF id = next_uuid THEN next_uuid + 1 ELSE next_uuid
        /\ chat' = [chat EXCEPT ![r] =
                      [@ EXCEPT !.pc = "returned", !.endpoint = "get_or_create_session",
                                !.session_id = requested, !.session = id]]
    /\ UNCHANGED <<service_vars, sanitizer_vars, multi_agent_available>>

\* AddMessage making the session it does not find.
AddMessage_CreatesSession(r, id, role) ==
    /\ NextReceived(r)
    /\ sessions' = add_message(WithSession(sessions, id), id, RequestMessage(r), role)
    /\ chat' = [chat EXCEPT ![r] =
                  [@ EXCEPT !.pc = "returned", !.endpoint = "add_message",
                            !.session_id = id, !.session = id]]
    /\ UNCHANGED <<service_vars, sanitizer_vars, next_uuid, multi_agent_available>>

\* add_message: the message is appended to the session of a known id; any
\* other id raises ValueError, before anything is touched.
AddMessage(r, id, role) ==
    /\ NextReceived(r)
    /\ IF SessionFound(sessions, id)
       THEN /\ sessions' = add_message(sessions, id, RequestMessage(r), role)
            /\ chat' = [chat EXCEPT ![r] =
                          [@ EXCEPT !.pc = "returned", !.endpoint = "add_message",
                                    !.session_id = id, !.session = id]]
       ELSE /\ chat' = [chat EXCEPT ![r] =
                          [@ EXCEPT !.pc = "raised", !.endpoint = "add_message",
                                    !.session_id = id, !.error = "not found"]]
            /\ UNCHANGED sessions
    /\ UNCHANGED <<service_vars, sanitizer_vars, next_uuid, multi_agent_available>>

\* The session ids the service can be called with: none, one of a session it
\* holds, one it does not hold.
ServiceSessionIds == {NoSession, UnknownSession} \cup DOMAIN sessions

NextSessionService ==
    \/ \E r \in ChatRequests : \E requested \in ServiceSessionIds :
          GetOrCreateSession(r, requested)
    \/ \E r \in ChatRequests : \E id \in ServiceSessionIds \ {NoSession} :
          \E role \in {"user", "assistant"} : AddMessage(r, id, role)
    \/ \E r \in ChatRequests : \E requested \in ServiceSessionIds \ {NoSession} :
          GetMessages(r, requested)

\* The methods of the session service and the listing endpoint, called in any
\* order with any session id.
SpecSessionService == InitRouter /\ [][NextSessionService]_vars

\* The exchanges a session holds before the requests of a run: message i of
\* the session, a user message and the reply to it in turn.
EarlierMessages(id, n) ==
    [i \in 1..n |->
        [id |-> <<id, i>>, content |-> Txt("earlier", i),
         role |-> IF i % 2 = 1 THEN "user" ELSE "assistant", timestamp |-> i]]

\* The router with one session that has seen up to MaxExchanges exchanges
\* already, or with none.
InitContext ==
    /\ InitService({}, 0)
    /\ is_configured
    /\ NoSanitizing
    /\ chat = [r \in ChatRequests |-> NoRequest]
    /\ multi_agent_available = TRUE
    /\ \E n \in 0..MaxExchanges :
          IF n = 0
          THEN sessions = <<>> /\ next_uuid = 1
          ELSE /\ sessions = [s \in {1} |-> [id |-> 1, messages |-> EarlierMessages(1, 2 * n)]]
               /\ next_uuid = 2

NextContext ==
    \/ \E r \in ChatRequests : \E requested \in {NoSession} \cup DOMAIN sessions :
          ChatReceive(r, "multi", requested)
    \/ \E r \in ChatRequests : \E text \in Replies(r) : ChatRespond(r, text)

\* Multi-agent chat requests on a session with a history, any number of them
\* in progress at a time.
SpecContext == InitContext /\ [][NextContext]_vars

\* The session ids a client can send: none, one it was given, one it made up.
RequestSessionIds == {NoSession, UnknownSession} \cup ReturnedSessionIds

NextRouter ==
    \/ \E r \in ChatRequests : ChatUnavailable(r)
    \/ \E r \in ChatRequests : \E endpoint \in Endpoints :
          \E requested \in RequestSessionIds : ChatReceive(r, endpoint, requested)
    \/ \E r \in ChatRequests : \E text \in Replies(r) : ChatRespond(r, text)
    \/ \E r \in ChatRequests : \E requested \in RequestSessionIds \ {NoSession} :
          GetMessages(r, requested)

SpecRouter == InitRouter /\ [][NextRouter]_vars

\* ------------------------------------------------------------ specification

\* The length of the call lists the completion client returns in this run.
CallsPerTurn ==
    IF \A c \in Calls : pc[c] # "unused" THEN MaxConcurrentCalls ELSE MaxCalls

Next ==
    \/ \E c \in Calls : ConfigurationError(c)
    \/ \E c \in Calls : InitializationError(c)
    \/ \E c \in Calls : PublishTask(c)
    \/ \E c \in Calls : PublishError(c)
    \/ \E c \in Calls : Poll(c)
    \/ \E task \in tasks : ModelError(task)
    \/ \E task \in tasks : \E text \in ModelTexts(task.context) : ModelText(task, text)
    \/ \E task \in tasks : \E n \in 1..CallsPerTurn : \E kinds \in [1..n -> CallKinds(task.topic)] :
          ModelCalls(task, FunctionCalls(task.context, kinds))
    \/ \E message \in responses : HandleAgentResponse(message)

Spec == Init /\ [][Next]_vars

SpecChain == InitChain /\ [][Next]_vars

SpecConcurrent == InitConcurrent /\ [][Next]_vars

\* As Next, with _initialize_runtime taken one await at a time: while one call
\* is between two awaits of its initialization the event loop may run the
\* other call.  A call that finds the runtime assigned skips the
\* initialization.
NextStartup ==
    \/ \E c \in Calls : ConfigurationError(c)
    \/ \E c \in Calls : BeginInitialization(c)
    \/ \E c \in Calls : AdvanceInitialization(c)
    \/ \E c \in Calls : FinishInitialization(c)
    \/ \E c \in Calls : InitializationFails(c)
    \/ \E c \in Calls : ~NeedsInitialization /\ PublishTask(c)
    \/ \E c \in Calls : Poll(c)
    \/ \E task \in tasks : ModelError(task)
    \/ \E task \in tasks : \E text \in ModelTexts(task.context) : ModelText(task, text)
    \/ \E task \in tasks : \E n \in 1..CallsPerTurn : \E kinds \in [1..n -> CallKinds(task.topic)] :
          ModelCalls(task, FunctionCalls(task.context, kinds))
    \/ \E message \in responses : HandleAgentResponse(message)

\* Two concurrent generate_response calls on a service not yet initialized.
SpecStartup == InitConcurrent /\ [][NextStartup]_vars

\* The messages of a history: message i says so, under any of the roles.
HistoryRoles == {"user", "assistant", "system"}
HistoryMessage(i, role) == [role |-> role, content |-> Txt(ToString(i), 0)]

\* One generate_response call, made with any history.
InitHistory ==
    /\ InitService({1}, 0)
    /\ is_configured
    /\ NoSanitizing
    /\ NoChat

\* The caller's conversation grows by a message before the call is made: a
\* user or an assistant message, and at most one system message.
Converse(c, role) ==
    /\ pc[c] = "idle"
    /\ Len(history[c]) < MaxHistory
    /\ role = "system" => \A i \in 1..Len(history[c]) : history[c][i].role # "system"
    /\ history' = [history EXCEPT ![c] = Append(@, HistoryMessage(Len(@) + 1, role))]
    /\ UNCHANGED <<sanitizer_vars, chat_vars, spinning, is_configured, runtime,
                   session_responses, tasks, responses, pc, session_id, total_waited,
                   returned, next_session, model_budget, writes, first_reply,
                   delivery_errors, registered>>

NextHistory ==
    \/ \E c \in Calls : \E role \in HistoryRoles : Converse(c, role)
    \/ \E c \in Calls : PublishTask(c)

SpecHistory == InitHistory /\ [][NextHistory]_vars

\* The asyncio event loop runs one coroutine at a time and takes the next one
\* when the running one awaits, returns or raises.
EventLoopFree == spinning = {}

\* As Next, with a completion client that may also return an empty list of
\* calls.
NextAnyTurn ==
    \/ \E c \in Calls : EventLoopFree /\ ConfigurationError(c)
    \/ \E c \in Calls : EventLoopFree /\ InitializationError(c)
    \/ \E c \in Calls : EventLoopFree /\ PublishTask(c)
    \/ \E c \in Calls : EventLoopFree /\ PublishError(c)
    \/ \E c \in Calls : EventLoopFree /\ Poll(c)
    \/ \E task \in tasks : EventLoopFree /\ ModelError(task)
    \/ \E task \in tasks : \E text \in ModelTexts(task.context) :
          EventLoopFree /\ ModelText(task, text)
    \/ \E task \in tasks : \E n \in 1..CallsPerTurn : \E kinds \in [1..n -> CallKinds(task.topic)] :
          EventLoopFree /\ ModelCalls(task, FunctionCalls(task.context, kinds))
    \/ \E task \in tasks : EventLoopFree /\ ModelNoCalls(task)
    \/ \E message \in responses : EventLoopFree /\ HandleAgentResponse(message)

SpecAnyTurn == Init /\ [][NextAnyTurn]_vars

\* The poll loop sleeps with asyncio.sleep, which returns: a call that polls
\* keeps taking poll steps.
Fairness == \A c \in Calls : WF_vars(Poll(c))

FairSpec == Spec /\ Fairness

\* ------------------------------------------------------------------ claims

\* What is in flight for a session.
TasksOf(s) == {task \in tasks : task.session_id = s}
ResponsesOf(s) == {m \in responses : m.session_id = s}

\* The call that minted a session id.
CallOf(s) == CHOOSE c \in Calls : session_id[c] = s
Minted(s) == \E c \in Calls : session_id[c] = s

\* The final turn a routed agent appends to the context it received.
IsFinalTurn(turn, agent) == turn.k = "assistant" /\ turn.source = agent

\* C1: a task whose first model response is plain text is finalized at once.
\* A response published after exactly one completion is the received context
\* plus the final assistant turn, under a minted session id whose call asked
\* the question; and when the entry task of a session is answered with text,
\* exactly one completion was requested, no task of the session is left, and
\* the one AgentResponse is either in flight or stored as exactly one message.
C1_TextFinalizesImmediately ==
    /\ \A m \in responses :
         m.model_calls = 1 =>
           /\ Len(m.context) = Len(m.received) + 1
           /\ IsPrefix(m.received, m.context)
           /\ IsFinalTurn(m.context[Len(m.context)], m.reply_to_topic_type)
           /\ Minted(m.session_id)
           /\ LastUserOf(m.context) = CallOf(m.session_id)
    /\ \A s \in SessionIds :
         first_reply[s] = "text" =>
           /\ TasksOf(s) = {}
           /\ model_budget = MaxModelCalls - 1
           /\ Cardinality(ResponsesOf(s)) + writes[s] = 1
           /\ \A m \in ResponsesOf(s) : m.model_calls = 1
           /\ s \in DOMAIN session_responses =>
                Len(session_responses[s]) = writes[s]

\* C1 witness: the entry task was answered with text and its one message is
\* stored, not yet read.
C1_Witness ==
    \E s \in SessionIds :
        /\ first_reply[s] = "text"
        /\ writes[s] = 1
        /\ s \in DOMAIN session_responses
        /\ Len(session_responses[s]) = 1

\* C2: two concurrent generate_response calls each get only their own
\* response.  Every task and response in flight, every stored message and every
\* returned text was produced from the user message of the call that minted
\* the session id it travels, is stored or is returned under.
C2_SessionIsolation ==
    /\ \A task \in tasks :
         Minted(task.session_id) /\ LastUserOf(task.context) = CallOf(task.session_id)
    /\ \A m \in responses :
         Minted(m.session_id) /\ LastUserOf(m.context) = CallOf(m.session_id)
    /\ \A s \in DOMAIN session_responses :
         \A i \in 1..Len(session_responses[s]) :
            /\ Minted(s)
            /\ session_responses[s][i].content.of \in {0, CallOf(s)}
    /\ \A c \in Calls : pc[c] = "done" => returned[c].of \in {0, c}
    /\ \A c, d \in Calls :
         c # d /\ session_id[c] # NoSession => session_id[c] # session_id[d]

\* C2 witness: both calls have returned, each with the reply to its own
\* question.
C2_Witness ==
    \A c \in Calls : pc[c] = "done" /\ returned[c] = Txt("reply", c)

\* The calls that reached the poll loop and returned from it.
ReturnedFromPolling(c) ==
    /\ pc[c] = "done"
    /\ session_id[c] # NoSession
    /\ returned[c] # PublishErrorText

\* C3: generate_response does not block when the coordinator never writes.
\* A polling call always returns; the polls never exceed the ceiling; a call
\* that returns from the poll loop with no coordinator write for its session
\* returns the timeout text after exactly MaxPolls sleeps; and a call that has
\* returned stays returned with the same text.
C3_TimeoutReturns ==
    /\ \A c \in Calls : (pc[c] = "polling") ~> (pc[c] = "done")
    /\ [](\A c \in Calls : total_waited[c] <= MaxPolls)
    /\ [](\A c \in Calls :
            ReturnedFromPolling(c) /\ writes[session_id[c]] = 0 =>
                returned[c] = TimeoutText /\ total_waited[c] = MaxPolls)
    /\ [][\A c \in Calls :
            pc[c] = "done" => pc'[c] = "done" /\ returned'[c] = returned[c]]_vars

\* C3 witness: a call has timed out and nothing was ever written for its
\* session.
C3_Witness ==
    \E c \in Calls :
        /\ ReturnedFromPolling(c)
        /\ returned[c] = TimeoutText
        /\ writes[session_id[c]] = 0

\* The envelopes a step publishes and the tasks whose delivery it ends or
\* continues.
PublishedTasks == tasks' \ tasks
PublishedResponses == responses' \ responses
HandledTasks == tasks \ tasks'

\* C4: contexts only grow along a delegation chain.  In every delivery the
\* context in hand extends the context received; and every task or response a
\* step publishes, other than the initial task of generate_response, extends
\* the context of the task the step handled, for the same session.
C4_ContextAppendOnly ==
    /\ [](\A task \in tasks : IsPrefix(task.received, task.context))
    /\ [](\A m \in responses : IsPrefix(m.received, m.context))
    /\ [][/\ \A n \in PublishedTasks :
               \/ IsEntryTask(n) /\ n.model_calls = 0 /\ Len(n.context) = 1
               \/ \E task \in HandledTasks :
                    /\ task.session_id = n.session_id
                    /\ IsPrefix(task.context, n.context)
                    /\ Len(task.context) <= Len(n.context)
          /\ \A m \in PublishedResponses :
               \E task \in HandledTasks :
                    /\ task.session_id = m.session_id
                    /\ IsPrefix(task.context, m.context)
                    /\ IsPrefix(task.received, m.context)]_vars

\* C4 witness: the final response of a chain Researcher, Summarizer,
\* Researcher: the last hop received five turns.
C4_Witness ==
    \E m \in responses :
        /\ m.reply_to_topic_type = ResearcherAgent
        /\ Len(m.received) = 5
        /\ Len(m.context) = 6

\* A turn that names a tool in neither registry of the agent handling it.
HasUnknownTool(task, calls) ==
    \E i \in 1..Len(calls) :
        calls[i].name \notin ToolNames(task.topic) \cup DelegateToolNames(task.topic)

\* C5: a turn that requests an unknown tool ends the delivery and publishes
\* nothing: the task leaves the bus, no task and no response is added, the
\* store is untouched, the exception is recorded and the runtime keeps running.
C5_UnknownToolPublishesNothing ==
    [][\A task \in HandledTasks : \A n \in 1..MaxCalls :
         \A kinds \in [1..n -> CallKinds(task.topic)] :
            LET calls == FunctionCalls(task.context, kinds) IN
            HasUnknownTool(task, calls) /\ ModelCalls(task, calls) =>
                /\ tasks' = tasks \ {task}
                /\ responses' = responses
                /\ session_responses' = session_responses
                /\ delivery_errors'[task.session_id] # {}
                /\ runtime' = "started"]_vars

\* C5 witness: a delivery of the session ended on an unknown tool and nothing
\* of the session is in flight or stored.
C5_Witness ==
    \E s \in SessionIds :
        /\ "Unknown tool" \in delivery_errors[s]
        /\ TasksOf(s) = {}
        /\ ResponsesOf(s) = {}
        /\ writes[s] = 0

\* A turn of direct tool calls only, at least one of which fails: its
\* arguments do not decode, or the tool raises on them.
OnlyDirectCalls(task, calls) ==
    \A i \in 1..Len(calls) : calls[i].name \in ToolNames(task.topic)
SomeCallFails(calls) ==
    \E i \in 1..Len(calls) : calls[i].arguments # "ok"

\* The delivery of task goes on with the turn recorded: one continuation of it
\* is in flight whose context ends with the calls and their results, the
\* result of every failed call flagged is_error.
ContinuesWithErrorResults(task, calls) ==
    \E t \in tasks' :
        /\ t.session_id = task.session_id
        /\ t.topic = task.topic
        /\ t.received = task.received
        /\ Len(t.context) = Len(task.context) + 2
        /\ t.context[Len(t.context)].k = "results"
        /\ Len(t.context[Len(t.context)].results) = Len(calls)
        /\ \A i \in 1..Len(calls) :
             calls[i].arguments # "ok" => t.context[Len(t.context)].results[i].is_error

\* C6: a failing direct tool is recorded as an error-flagged result and the
\* agent goes on with the next model call; the task is not aborted.
C6_ToolFailureRecorded ==
    [][\A task \in HandledTasks : \A n \in 1..MaxCalls :
         \A kinds \in [1..n -> CallKinds(task.topic)] :
            LET calls == FunctionCalls(task.context, kinds) IN
            OnlyDirectCalls(task, calls) /\ SomeCallFails(calls) /\ ModelCalls(task, calls) =>
                ContinuesWithErrorResults(task, calls)]_vars

\* C7: generate_response never raises and returns a non-empty text on every
\* path: a call is not yet made, polling, or has returned a text that is
\* neither missing nor empty.
C7_AlwaysReturnsText ==
    \A c \in Calls :
        /\ pc[c] \in {"unused", "idle", "polling", "done"}
        /\ pc[c] = "done" => returned[c] \notin {NoText, EmptyText}
        /\ pc[c] # "done" => returned[c] = NoText

\* C7 witness: the model's final text was empty and the call returned the
\* coordinator's fallback text.
C7_Witness ==
    \E c \in Calls :
        /\ pc[c] = "done"
        /\ returned[c] = ApologyText
        /\ writes[session_id[c]] = 1

\* A step in which call c leaves the poll loop or sleeps in it.
PollStep(c) ==
    /\ pc[c] = "polling"
    /\ \/ pc'[c] # pc[c]
       \/ total_waited'[c] # total_waited[c]
       \/ returned'[c] # returned[c]
       \/ session_id[c] \in DOMAIN session_responses
            /\ session_id[c] \notin DOMAIN session_responses'
       \/ session_id[c] \in DOMAIN session_responses
            /\ session_id[c] \in DOMAIN session_responses'
            /\ Len(session_responses'[session_id[c]]) < Len(session_responses[session_id[c]])

\* C8: the poll that first finds the session's entry non-empty returns the
\* content of the entry's last message, without sleeping again, and removes
\* the entry; the other entries stay as they are.
C8_ReturnsLastAndDeletes ==
    [][\A c \in Calls :
         PollStep(c) /\ ~StillWaiting(c) =>
            LET entry == session_responses[session_id[c]] IN
            /\ pc'[c] = "done"
            /\ returned'[c] = entry[Len(entry)].content
            /\ total_waited'[c] = total_waited[c]
            /\ DOMAIN session_responses' = DOMAIN session_responses \ {session_id[c]}
            /\ \A s \in DOMAIN session_responses' :
                 session_responses'[s] = session_responses[s]]_vars

\* C8 witness: a call has returned the reply the coordinator stored and its
\* session is gone from the store.
C8_Witness ==
    \E c \in Calls :
        /\ pc[c] = "done"
        /\ returned[c] = Txt("reply", c)
        /\ writes[session_id[c]] > 0
        /\ session_id[c] \notin DOMAIN session_responses

\* C9: the coordinator writes a session's entry exactly once: never a second
\* write, never more than one message in the entry.
C9_WrittenOnce ==
    \A s \in SessionIds :
        /\ writes[s] <= 1
        /\ s \in DOMAIN session_responses => Len(session_responses[s]) <= 1

\* C10: a non-empty entry in the store means the session's conversation has
\* terminated: no task of the session is queued or being handled.
C10_StoredMeansTerminated ==
    \A s \in DOMAIN session_responses :
        session_responses[s] # <<>> => TasksOf(s) = {}

\* C11: runtime initialization is idempotent.  Over the calls made on one
\* service the runtime is never created or started twice and no agent type or
\* subscription is registered twice; a started runtime stands for exactly one
\* creation, three registrations, three subscriptions and one start; and once
\* the runtime is started every later step, the later calls included, keeps the
\* same started runtime and registers nothing.
C11_InitializedOnce ==
    /\ [](/\ registered.runtimes <= 1
          /\ registered.agents <= 3
          /\ registered.subscriptions <= 3
          /\ registered.starts <= 1)
    /\ [](runtime = "started" => registered = Registrations(InitializationSteps))
    /\ [](runtime = "None" => registered = Registrations(0))
    /\ [][runtime = "started" => runtime' = "started" /\ registered' = registered]_vars

\* C11 witness: two calls have gone through generate_response on the started
\* runtime, the second reusing what the first set up.
C11_Witness ==
    /\ runtime = "started"
    /\ \A c \in Calls : session_id[c] # NoSession
    /\ registered = Registrations(InitializationSteps)

\* The sessions for which a step ends a delivery with an unhandled error.
FailsIn(s) == delivery_errors'[s] # delivery_errors[s]

C13_ModelErrorApologized ==
    [][\A c \in Calls :
         /\ pc[c] = "polling"
         /\ first_reply[session_id[c]] = "error"
         /\ pc'[c] = "done"
         => /\ "model error" \notin delivery_errors[session_id[c]]
            /\ returned'[c] \in {ApologyText, ProcessingErrorText}]_vars

\* C14: a task abandoned for an unknown tool name leaves its session without
\* a response: once a delivery of the session has ended on an unknown tool
\* nothing is, or was, stored for the session, and the call of the session, if
\* it has returned, has returned the timeout text.
C14_UnknownToolTimesOut ==
    \A c \in Calls :
        session_id[c] # NoSession /\ "Unknown tool" \in delivery_errors[session_id[c]] =>
            /\ writes[session_id[c]] = 0
            /\ pc[c] = "done" => returned[c] = TimeoutText

\* The step in which call c gives up waiting.
TimesOut(c) == pc[c] = "polling" /\ pc'[c] = "done" /\ returned'[c] = TimeoutText

\* C15: a return on the wait ceiling leaves the response store unchanged: the
\* session's entry is still there, still empty, and every other entry is as
\* it was.
C15_TimeoutLeavesStore ==
    [][\A c \in Calls :
         TimesOut(c) =>
            /\ session_responses' = session_responses
            /\ session_id[c] \in DOMAIN session_responses'
            /\ session_responses'[session_id[c]] = <<>>]_vars

\* C15 witness: a call has returned the timeout text and its empty entry is
\* still in the store.
C15_Witness ==
    \E c \in Calls :
        /\ pc[c] = "done"
        /\ returned[c] = TimeoutText
        /\ session_id[c] \in DOMAIN session_responses
        /\ session_responses[session_id[c]] = <<>>

\* The calls that have given up waiting.
TimedOut(c) == pc[c] = "done" /\ returned[c] = TimeoutText

\* The messages stored for a session, none when it has no entry.
StoredFor(store, s) == IF s \in DOMAIN store THEN store[s] ELSE <<>>

\* C16: a caller-side timeout cancels nothing.  After the call of a session
\* has returned the timeout text, a step that takes a response of the session
\* off the bus stores it as one more message under that session id; and the
\* entry of a timed-out session is never removed nor shortened by a later
\* step.
C16_LateWritePersists ==
    /\ [][\A c \in Calls : \A m \in responses \ responses' :
            TimedOut(c) /\ m.session_id = session_id[c] =>
                /\ m.session_id \in DOMAIN session_responses'
                /\ Len(session_responses'[m.session_id]) =
                     Len(StoredFor(session_responses, m.session_id)) + 1
                /\ IsFinalTurn(m.context[Len(m.context)], m.reply_to_topic_type)]_vars
    /\ [][\A c \in Calls :
            TimedOut(c) /\ session_id[c] \in DOMAIN session_responses =>
                /\ session_id[c] \in DOMAIN session_responses'
                /\ IsPrefix(session_responses[session_id[c]],
                            session_responses'[session_id[c]])]_vars

\* C16 witness: the call has returned the timeout text, its task was then
\* answered and the coordinator's message sits in the store.
C16_Witness ==
    \E c \in Calls :
        /\ TimedOut(c)
        /\ writes[session_id[c]] = 1
        /\ session_id[c] \in DOMAIN session_responses
        /\ Len(session_responses[session_id[c]]) = 1
        /\ session_responses[session_id[c]][1].content = Txt("reply", c)

\* C17: the sanitizer is idempotent: applied to its own result, it returns
\* that result.
C17_SanitizerIdempotent ==
    [][passes >= 1 /\ passes' = passes + 1 => content' = content]_vars

\* A text with each run of whitespace turned into one space; and the same with
\* the ends trimmed first.
RECURSIVE RunsCollapsed(_)
RunsCollapsed(s) ==
    IF s = <<>> THEN <<>>
    ELSE IF s[1] \in Whitespace
    THEN IF Len(s) > 1 /\ s[2] \in Whitespace
         THEN RunsCollapsed(Tail(s))
         ELSE <<Space>> \o RunsCollapsed(Tail(s))
    ELSE <<s[1]>> \o RunsCollapsed(Tail(s))
RECURSIVE Trimmed(_)
Trimmed(s) ==
    IF s = <<>> THEN s
    ELSE IF s[1] \in Whitespace THEN Trimmed(Tail(s))
    ELSE IF s[Len(s)] \in Whitespace THEN Trimmed(SubSeq(s, 1, Len(s) - 1))
    ELSE s
WhitespaceNormalized(s) == RunsCollapsed(Trimmed(s))

\* Clean text: not empty, no TextMessage( wrapper, no quotes enclosing it, no
\* backslash.
EnclosedInQuotes(s) ==
    /\ Len(s) >= 2
    /\ \E q \in {Quote, Apostrophe} : s[1] = q /\ s[Len(s)] = q
CleanText(s) ==
    /\ s # <<>>
    /\ ~StartsWith(s, TextMessageOpen)
    /\ ~EnclosedInQuotes(s)
    /\ \A i \in 1..Len(s) : s[i] # Backslash

\* C18: a clean text comes back with its whitespace normalized and nothing
\* else changed.  (A text of whitespace only has nothing left after that, and
\* the fixed apology stands for the empty result.)
C18_CleanTextOnlyCollapsed ==
    passes = 1 /\ CleanText(raw) =>
        content = IF WhitespaceNormalized(raw) = <<>> THEN Apology
                  ELSE WhitespaceNormalized(raw)

\* The steps of the router for request r, and the sessions a step leaves as
\* they were.
Received(r) == chat[r].pc = "idle" /\ chat'[r].pc = "generating"
Answered(r) == chat[r].pc = "generating" /\ chat'[r].pc = "done"
OnlySessionChanged(s) ==
    /\ DOMAIN sessions' = DOMAIN sessions
    /\ \A t \in DOMAIN sessions \ {s} : sessions'[t] = sessions[t]

\* One message with this role and content is put at the end of session s.
Appended(s, role, text) ==
    LET before == sessions[s].messages
        after == sessions'[s].messages IN
    /\ Len(after) = Len(before) + 1
    /\ SubSeq(after, 1, Len(before)) = before
    /\ after[Len(after)].role = role
    /\ after[Len(after)].content = text

\* C19: a chat request, on either endpoint, that carries a session id the
\* service has returned before is served on that session.  Its user message
\* is appended to that session's history, no session is created, and when the
\* request is answered the reply is appended to the same history and the
\* ChatResponse carries the same session id.
C19_KnownSessionReused ==
    /\ [][\A r \in ChatRequests :
            Received(r) /\ chat'[r].session_id \in ReturnedSessionIds =>
                LET s == chat'[r].session_id IN
                /\ chat'[r].session = s
                /\ OnlySessionChanged(s)
                /\ sessions'[s].id = s
                /\ Appended(s, "user", RequestMessage(r))]_vars
    /\ [][\A r \in ChatRequests :
            Answered(r) /\ chat[r].session_id \notin {NoSession, UnknownSession} =>
                LET s == chat[r].session_id IN
                /\ chat'[r].response_session_id = s
                /\ chat'[r].response \in Replies(r)
                /\ OnlySessionChanged(s)
                /\ Appended(s, "assistant", chat'[r].response)]_vars

\* C19 witness: after a first exchange, one request on each endpoint carried
\* the returned session id and was answered: the session holds six messages.
C19_Witness ==
    \E r, q \in ChatRequests :
        /\ chat[r].pc = "done" /\ chat[r].endpoint = "single"
        /\ chat[q].pc = "done" /\ chat[q].endpoint = "multi"
        /\ chat[r].session_id \notin {NoSession, UnknownSession}
        /\ chat[q].session_id = chat[r].session_id
        /\ chat[r].response_session_id = chat[r].session_id
        /\ chat[q].response_session_id = chat[r].session_id
        /\ Len(sessions[chat[r].session_id].messages) = 6

\* The requests that were given a session.
Served(r) == chat[r].pc \in {"generating", "done"}

\* C20: requests sent without a session id get session ids of their own, and
\* the sessions stay independent: every message in a session's history is the
\* message or the reply of a request served on that session, whatever requests
\* follow on either session.
C20_SessionsIndependent ==
    /\ \A r, q \in ChatRequests :
         /\ r # q /\ Served(r) /\ Served(q)
         /\ chat[r].session_id = NoSession /\ chat[q].session_id = NoSession
         => chat[r].session # chat[q].session
    /\ \A s \in DOMAIN sessions :
         /\ sessions[s].id = s
         /\ \A i \in 1..Len(sessions[s].messages) :
              LET r == sessions[s].messages[i].content.of IN
              Served(r) /\ chat[r].session = s
    /\ \A r \in ChatRequests :
         chat[r].pc = "done" => chat[r].response_session_id = chat[r].session

\* C20 witness: two requests without a session id were answered under
\* different ids, a third request went on in the first one's session, and the
\* histories hold four and two messages.
C20_Witness ==
    \E r, q, p \in ChatRequests :
        /\ r # q
        /\ chat[r].pc = "done" /\ chat[r].session_id = NoSession
        /\ chat[q].pc = "done" /\ chat[q].session_id = NoSession
        /\ chat[r].response_session_id # chat[q].response_session_id
        /\ chat[p].pc = "done" /\ chat[p].session_id = chat[r].response_session_id
        /\ Len(sessions[chat[r].session].messages) = 4
        /\ Len(sessions[chat[q].session].messages) = 2

\* The requests whose user message, and whose reply, session s was given.
AskedOn(s) == {r \in ChatRequests : Served(r) /\ chat[r].session = s}
AnsweredOn(s) == {r \in ChatRequests : chat[r].pc = "done" /\ chat[r].session = s}

\* C21: the listing of a session is the messages added to it, oldest first.
\* Every stored message has an id, a content, a timestamp and the role user or
\* assistant; a session holds one message per request asked on it and one per
\* request answered on it; a step leaves every session's sequence as it was or
\* appends one message at its end, and removes no session; and the listing
\* endpoint answers with the stored sequence, element by element.
C21_ListingIsHistory ==
    /\ [](\A s \in DOMAIN sessions :
            /\ Len(sessions[s].messages) =
                 Cardinality(AskedOn(s)) + Cardinality(AnsweredOn(s))
            /\ \A i \in 1..Len(sessions[s].messages) :
                 LET m == sessions[s].messages[i] IN
                 /\ DOMAIN m = {"id", "content", "role", "timestamp"}
                 /\ m.role \in {"user", "assistant"}
                 /\ m.content \in {RequestMessage(m.content.of)} \cup Replies(m.content.of)
                 /\ \A j \in 1..Len(sessions[s].messages) :
                      j # i => sessions[s].messages[j].id # m.id)
    /\ [][\A s \in DOMAIN sessions :
            /\ s \in DOMAIN sessions'
            /\ IsPrefix(sessions[s].messages, sessions'[s].messages)
            /\ Len(sessions'[s].messages) <= Len(sessions[s].messages) + 1]_vars
    /\ [][\A r \in ChatRequests :
            chat[r].pc = "idle" /\ chat'[r].pc = "listed" =>
                LET stored == sessions[chat'[r].session_id].messages
                    listed == chat'[r].listing IN
                /\ Len(listed) = Len(stored)
                /\ \A i \in 1..Len(stored) :
                     /\ listed[i].id = stored[i].id
                     /\ listed[i].content = stored[i].content
                     /\ listed[i].role = stored[i].role
                     /\ listed[i].timestamp = stored[i].timestamp]_vars

\* C21 witness: a session was listed after two exchanges: four messages, user
\* and assistant in turn, the first request's before the second's.
C21_Witness ==
    \E r \in ChatRequests :
        /\ chat[r].pc = "listed"
        /\ Len(chat[r].listing) = 4
        /\ chat[r].listing[1].role = "user"
        /\ chat[r].listing[2].role = "assistant"
        /\ chat[r].listing[1].content.of = chat[r].listing[2].content.of
        /\ chat[r].listing[3].content.of # chat[r].listing[1].content.of
        /\ chat[r].listing[4].role = "assistant"

\* A turn with a call of one of the agent's delegate tools, and the calls of
\* a turn that are such calls.
HasDelegateCall(task, calls) ==
    \E i \in 1..Len(calls) : calls[i].name \in DelegateToolNames(task.topic)
DelegateCallsOf(task, calls) ==
    {i \in 1..Len(calls) : calls[i].name \in DelegateToolNames(task.topic)}

\* The delivery of task does not go on: no continuation of it awaits a
\* completion.
DeliveryEnded(task) ==
    /\ task \notin tasks'
    /\ ~\E t \in tasks' :
          /\ t.session_id = task.session_id
          /\ t.topic = task.topic
          /\ t.received = task.received
          /\ t.model_calls > task.model_calls

\* A task for the target of delegate call i is published for the session.
DelegatedTo(task, call) ==
    \E t \in PublishedTasks :
        /\ t.topic = DelegateTopic(call.name)
        /\ t.session_id = task.session_id
        /\ t.model_calls = 0

\* C22: delegation takes precedence.  Whenever a turn of registered tools
\* holds a delegate call, alone or with direct calls, the agent publishes a
\* task to the target of every delegate call and stops: the delivery ends with
\* no further completion requested and no AgentResponse published.
C22_DelegationWins ==
    [][\A task \in HandledTasks : \A n \in 1..MaxCalls :
         \A kinds \in [1..n -> CallKinds(task.topic)] :
            LET calls == FunctionCalls(task.context, kinds) IN
            /\ HasDelegateCall(task, calls)
            /\ ~HasUnknownTool(task, calls)
            /\ ModelCalls(task, calls)
            => /\ \A i \in DelegateCallsOf(task, calls) : DelegatedTo(task, calls[i])
               /\ DeliveryEnded(task)
               /\ responses' = responses]_vars

\* C22 with the turns left out in which a direct tool fails.
C22_DelegationWinsUnlessToolFails ==
    [][\A task \in HandledTasks : \A n \in 1..MaxCalls :
         \A kinds \in [1..n -> CallKinds(task.topic)] :
            LET calls == FunctionCalls(task.context, kinds) IN
            /\ HasDelegateCall(task, calls)
            /\ ~HasUnknownTool(task, calls)
            /\ ~SomeCallFails(calls)
            /\ ModelCalls(task, calls)
            => /\ \A i \in DelegateCallsOf(task, calls) : DelegatedTo(task, calls[i])
               /\ DeliveryEnded(task)
               /\ responses' = responses]_vars

\* A turn with a call of one of the agent's direct tools, and those calls.
HasDirectCall(task, calls) ==
    \E i \in 1..Len(calls) : calls[i].name \in ToolNames(task.topic)
DirectCallsOf(task, calls) ==
    {i \in 1..Len(calls) : calls[i].name \in ToolNames(task.topic)}

\* The turns of context after the first n hold a tool-result turn with the
\* result of call.
HoldsResultOf(context, n, call) ==
    \E j \in (n + 1)..Len(context) :
        /\ context[j].k = "results"
        /\ \E k \in 1..Len(context[j].results) :
              /\ context[j].results[k].call_id = call.id
              /\ context[j].results[k].name = call.name

\* C23: in a turn of direct and delegate calls, none of which fails, the
\* results of the direct tools are appended to the context: every task
\* published to a delegate target holds, after the context of the task
\* handled, the result of every direct call of the turn, beside the delegate
\* call and its transferred result.
C23_DelegateInheritsDirectResults ==
    [][\A task \in HandledTasks : \A n \in 1..MaxCalls :
         \A kinds \in [1..n -> CallKinds(task.topic)] :
            LET calls == FunctionCalls(task.context, kinds) IN
            /\ HasDelegateCall(task, calls)
            /\ HasDirectCall(task, calls)
            /\ ~HasUnknownTool(task, calls)
            /\ ~SomeCallFails(calls)
            /\ ModelCalls(task, calls)
            => \A t \in PublishedTasks :
                 /\ IsPrefix(task.context, t.context)
                 /\ \E i \in DelegateCallsOf(task, calls) :
                       HoldsResultOf(t.context, Len(task.context), calls[i])
                 /\ \A i \in DirectCallsOf(task, calls) :
                       HoldsResultOf(t.context, Len(task.context), calls[i])]_vars

\* The delivery of task goes on with the turn of calls recorded: the task is
\* replaced by one that awaits the next completion, its context the old one
\* plus one assistant turn holding all the calls and one tool-result turn
\* holding one result per call, same ids, same order.
ContinuesWithResults(task, calls) ==
    \E t \in tasks' :
        /\ tasks' = (tasks \ {task}) \cup {t}
        /\ t.session_id = task.session_id
        /\ t.topic = task.topic
        /\ t.received = task.received
        /\ t.model_calls = task.model_calls + 1
        /\ Len(t.context) = Len(task.context) + 2
        /\ IsPrefix(task.context, t.context)
        /\ LET turn == t.context[Len(task.context) + 1]
               answer == t.context[Len(task.context) + 2] IN
           /\ turn.k = "calls"
           /\ turn.source = task.topic
           /\ turn.calls = calls
           /\ answer.k = "results"
           /\ Len(answer.results) = Len(calls)
           /\ \A i \in 1..Len(calls) :
                /\ answer.results[i].call_id = calls[i].id
                /\ answer.results[i].name = calls[i].name

\* C24: a turn of direct calls only is recorded and answered.  The agent
\* appends one assistant turn with all the calls and one tool-result turn with
\* one result per call, and awaits the next completion with that context;
\* nothing is published.
C24_DirectTurnExtendsContext ==
    [][\A task \in HandledTasks : \A n \in 1..MaxCalls :
         \A kinds \in [1..n -> CallKinds(task.topic)] :
            LET calls == FunctionCalls(task.context, kinds) IN
            OnlyDirectCalls(task, calls) /\ ModelCalls(task, calls) =>
                /\ ContinuesWithResults(task, calls)
                /\ responses' = responses]_vars

\* C24 with the turns left out in which a direct tool fails.
C24_DirectTurnExtendsContextUnlessToolFails ==
    [][\A task \in HandledTasks : \A n \in 1..MaxCalls :
         \A kinds \in [1..n -> CallKinds(task.topic)] :
            LET calls == FunctionCalls(task.context, kinds) IN
            OnlyDirectCalls(task, calls) /\ ~SomeCallFails(calls) /\ ModelCalls(task, calls) =>
                /\ ContinuesWithResults(task, calls)
                /\ responses' = responses]_vars

\* Every tool-result turn of a context comes right after an assistant turn
\* with calls, and answers calls of that turn only.
CausallyOrdered(context) ==
    \A i \in 1..Len(context) :
        context[i].k = "results" =>
            /\ i > 1
            /\ context[i - 1].k = "calls"
            /\ \A j \in 1..Len(context[i].results) :
                 \E k \in 1..Len(context[i - 1].calls) :
                    context[i - 1].calls[k].id = context[i].results[j].call_id

\* C25: every context passed to the model, published in a task or published in
\* an AgentResponse is causally ordered: a tool-result turn is immediately
\* preceded by the assistant turn whose calls it answers.
C25_ResultsFollowTheirCalls ==
    /\ \A task \in tasks : CausallyOrdered(task.context) /\ CausallyOrdered(task.received)
    /\ \A m \in responses : CausallyOrdered(m.context)

\* C25 witness: a final response whose context holds the tool-result turn of
\* a turn of two direct calls.
C25_Witness ==
    \E m \in responses : \E i \in 1..Len(m.context) :
        m.context[i].k = "results" /\ Len(m.context[i].results) = 2

\* C26: the tool loop of a delivery has a safety cap.  Against a model that
\* answers with direct calls only, the agent stops by itself: no delivery is
\* still awaiting a completion after it has been given every completion the
\* model returns in the run.
C26_ToolLoopCapped ==
    \A task \in tasks : task.model_calls < MaxModelCalls

\* C27: every iteration of the tool loop makes progress.  Whatever list of
\* calls the model returns, the empty list too, the iteration ends with a
\* publication, a raise or an await: no delivery holds the event loop, which
\* stays free for the poll loop and the other deliveries.
C27_EveryIterationYields == EventLoopFree

\* The latest turn of a context whose source is one of the two agents: its
\* place, 0 for none.
LatestAgentTurn(context) ==
    LET found == {i \in 1..Len(context) : context[i].source \in AgentNames} IN
    IF found = {} THEN 0 ELSE CHOOSE i \in found : \A j \in found : j <= i

\* The entry of a session, empty when the store has none.
EntryOf(store, s) == IF s \in DOMAIN store THEN store[s] ELSE <<>>

\* C28: the coordinator stores the text of the latest agent turn.  Handling
\* an AgentResponse appends exactly one assistant message to the entry of the
\* response's session, creating the entry if absent, and leaves the other
\* entries alone; the message's text is the text of the last turn whose source
\* is ResearcherAgent or SummarizerAgent, and the fixed apology when there is
\* no such turn or its text is empty.
C28_StoresLatestAgentText ==
    [][\A m \in responses :
         HandleAgentResponse(m) =>
            LET s == m.session_id
                before == EntryOf(session_responses, s)
                i == LatestAgentTurn(m.context) IN
            /\ s \in DOMAIN session_responses'
            /\ Len(session_responses'[s]) = Len(before) + 1
            /\ SubSeq(session_responses'[s], 1, Len(before)) = before
            /\ session_responses'[s][Len(before) + 1].role = "assistant"
            /\ \A o \in DOMAIN session_responses \ {s} :
                 o \in DOMAIN session_responses' /\ session_responses'[o] = session_responses[o]
            /\ LET text == session_responses'[s][Len(before) + 1].content IN
               /\ i = 0 => text = ApologyText
               /\ i > 0 /\ m.context[i].k = "assistant" =>
                    text = IF m.context[i].content = EmptyText THEN ApologyText
                           ELSE m.context[i].content]_vars

\* C28 witness: the coordinator has handled a response whose latest agent
\* turn was the summarizer's text, and added that text to an entry that held a
\* message.
C28_Witness ==
    /\ responses = {}
    /\ writes[1] = 1
    /\ session_responses[1] =
         <<Message("assistant", Txt("reply", 1)), Message("assistant", SummaryText)>>

\* The call of a session is in its poll loop.
CallerPolling(s) == \E c \in Calls : session_id[c] = s /\ pc[c] = "polling"

\* C29: the session's entry is created before the task is published.  From
\* the publication on, as long as the caller has not returned, the entry of
\* its session exists: every task and response of the session in flight finds
\* it, and every coordinator write for the session is made to an entry that is
\* already there.
C29_EntryBeforePublish ==
    /\ [](\A s \in SessionIds : CallerPolling(s) => s \in DOMAIN session_responses)
    /\ [][\A task \in PublishedTasks :
            IsEntryTask(task) /\ task.model_calls = 0 =>
                /\ task.session_id \in DOMAIN session_responses'
                /\ session_responses'[task.session_id] = <<>>]_vars
    /\ [][\A m \in responses :
            HandleAgentResponse(m) /\ CallerPolling(m.session_id) =>
                m.session_id \in DOMAIN session_responses]_vars

\* C29 witness: the coordinator has written for a session whose caller is
\* still polling, while the other call's task is in flight.
C29_Witness ==
    \E c, d \in Calls :
        /\ c # d
        /\ pc[c] = "polling"
        /\ writes[session_id[c]] = 1
        /\ Len(session_responses[session_id[c]]) = 1
        /\ pc[d] = "polling"
        /\ TasksOf(session_id[d]) # {}

\* The smaller of two numbers.
Min(a, b) == IF a < b THEN a ELSE b

\* C30: the initial task holds the last ten turns of the history and the new
\* message.  For a history h the context of the task published by
\* generate_response has min(Len(h), 10) + 1 turns: the last min(Len(h), 10)
\* messages of h in their order, a message of role user as a user turn and one
\* of any other role as an assistant turn, then the new message as the final
\* user turn; and the task is published to the Researcher topic only.
C30_InitialTaskFromHistory ==
    [][\A c \in Calls :
         pc[c] = "idle" /\ pc'[c] = "polling" =>
            LET h == history[c]
                n == Min(Len(h), 10) IN
            \E task \in tasks' :
                /\ tasks' = tasks \cup {task}
                /\ task.topic = ResearcherAgent
                /\ task.session_id = session_id'[c]
                /\ Len(task.context) = n + 1
                /\ \A i \in 1..n :
                     LET msg == h[Len(h) - n + i] IN
                     /\ task.context[i].content = msg.content
                     /\ task.context[i].k = IF msg.role = "user" THEN "user" ELSE "assistant"
                /\ task.context[n + 1] = UserMessage(UserText(c))]_vars

\* C30 witness: a task published for a history of eleven messages, the second
\* of them a system message: ten turns of history, the oldest one an assistant
\* turn that holds message 2, and the new message.
C30_Witness ==
    \E c \in Calls : \E task \in tasks :
        /\ pc[c] = "polling"
        /\ Len(history[c]) = 11
        /\ history[c][2].role = "system"
        /\ Len(task.context) = 11
        /\ task.context[1] = AssistantMessage(Txt(ToString(2), 0), "system")

\* C31: the coordinator only adds to the response store.  Handling an
\* AgentResponse for session S deletes no entry, keeps every message already
\* stored where it is, and leaves the entries of the sessions other than S as
\* they are; and an entry leaves the store only in a step in which the
\* generate_response call of that session, polling, returns the last message
\* of the entry.
C31_CoordinatorOnlyAdds ==
    [][/\ \A m \in responses :
             HandleAgentResponse(m) =>
                /\ DOMAIN session_responses \subseteq DOMAIN session_responses'
                /\ \A s \in DOMAIN session_responses :
                      /\ IsPrefix(session_responses[s], session_responses'[s])
                      /\ s # m.session_id => session_responses'[s] = session_responses[s]
       /\ \A s \in DOMAIN session_responses \ DOMAIN session_responses' :
             \E c \in Calls :
                /\ session_id[c] = s
                /\ pc[c] = "polling"
                /\ pc'[c] = "done"
                /\ session_responses[s] # <<>>
                /\ returned'[c] = FinalResponseText(session_responses[s])]_vars

\* Both sessions hold an entry, one of them written once by the coordinator
\* while the other is still empty.
C31_Witness ==
    \E c, d \in Calls :
       /\ c # d
       /\ session_id[c] \in DOMAIN session_responses
       /\ session_id[d] \in DOMAIN session_responses
       /\ Len(session_responses[session_id[c]]) = 1
       /\ writes[session_id[c]] = 1
       /\ session_responses[session_id[d]] = <<>>

\* What the sanitizer makes of a text once its escapes are handled: the trim,
\* the removal of one pair of enclosing quotes, the whitespace collapse and
\* the apology for an empty result.
AfterUnescaping(s) ==
    LET cleaned == Join(Split(Unquoted(Strip(s)), <<>>, <<>>)) IN
    IF cleaned = <<>> THEN Apology ELSE cleaned

\* The unwrapped text is decoded as a JSON string literal.
JsonDecodes(s) == StartsWith(s, Quote) /\ EndsWith(s, Quote) /\ json_loads(s).ok

\* C32: after the wrapper is stripped, a text that is not decoded as a JSON
\* string literal (it is not enclosed in double quotes, or its decoding fails)
\* has its escape sequences replaced by hand before the rest of the
\* sanitizer runs.
C32_ManualUnescapeWhenNotDecoded ==
    (passes = 1 /\ raw # <<>> /\ ~JsonDecodes(Unwrapped(raw)))
        => content = AfterUnescaping(ManualUnescape(Unwrapped(raw)))

\* The part of C32 the code keeps: a text enclosed in double quotes whose JSON
\* decoding fails has its escape sequences replaced by hand.
C32_ManualUnescapeWhenDecodingFails ==
    (/\ passes = 1
     /\ StartsWith(Unwrapped(raw), Quote) /\ EndsWith(Unwrapped(raw), Quote)
     /\ ~json_loads(Unwrapped(raw)).ok)
        => content = AfterUnescaping(ManualUnescape(Unwrapped(raw)))

\* The calls that have returned a stored response, their entry deleted.
ReturnedStored(c) == ReturnedFromPolling(c) /\ returned[c] # TimeoutText

\* C33: once generate_response has returned a stored response for a session
\* and deleted its entry, the session id is absent from the response store in
\* every later state: no later coordinator write re-creates the entry.
C33_DeletedEntryStaysAbsent ==
    \A c \in Calls :
        ReturnedStored(c) => session_id[c] \notin DOMAIN session_responses

\* The runtime is complete: created once, its three agent types registered,
\* its three subscriptions added, and started.
RuntimeComplete ==
    /\ runtime = "started"
    /\ registered.agents >= 3
    /\ registered.subscriptions >= 3
    /\ registered.starts >= 1

\* C35: a failed initialization leaves the service uninitialized, so that the
\* next call initializes in full; and no call publishes to a runtime that is
\* not complete: a call that has reached its poll loop, or a task on the bus,
\* means the runtime is registered, subscribed and started.
C35_FailedInitializationLeavesNone ==
    /\ [][\A c \in Calls :
            (pc[c] = "idle" /\ pc'[c] = "done"
                /\ returned'[c] \in {ConfigErrorText, InitErrorText})
               => runtime' = "None"]_vars
    /\ []((tasks # {} \/ \E c \in Calls : pc[c] = "polling") => RuntimeComplete)

\* C34: of two generate_response calls started concurrently on a service not
\* yet initialized, neither publishes its task before the three agents are
\* registered, the three subscriptions added and the runtime started: a call
\* enters its poll loop only with the runtime complete, and never while the
\* other call is inside an initialization it has begun.
C34_NoPublishDuringInitialization ==
    [][\A c \in Calls :
          (pc[c] # "polling" /\ pc'[c] = "polling") =>
             /\ RuntimeComplete'
             /\ \A d \in Calls \ {c} : pc[d] # "initializing"]_vars

\* C36: in every session history the messages alternate user, assistant,
\* user, assistant, also with two requests of one session in progress at a
\* time: the odd messages are user messages, the even ones assistant
\* messages.
C36_HistoryAlternates ==
    \A s \in DOMAIN sessions :
        \A i \in 1..Len(sessions[s].messages) :
            sessions[s].messages[i].role = IF i % 2 = 1 THEN "user" ELSE "assistant"

\* The calls of get_or_create_session made in this step.
CreatesOrGets(r) ==
    chat[r].pc = "idle" /\ chat'[r].endpoint = "get_or_create_session"

\* C38: get_or_create_session called with a session id that is not in the
\* store, or with none, creates a new, empty session under a fresh id, never
\* the supplied one, and leaves every existing session as it is; called with
\* a known id it returns that session and the store is unchanged.
C38_GetOrCreateFrame ==
    [][\A r \in ChatRequests :
          CreatesOrGets(r) =>
             LET requested == chat'[r].session_id
                 id == chat'[r].session
             IN  IF requested \in DOMAIN sessions
                 THEN id = requested /\ sessions' = sessions
                 ELSE /\ id # requested
                      /\ id \notin DOMAIN sessions
                      /\ DOMAIN sessions' = DOMAIN sessions \cup {id}
                      /\ sessions'[id] = Session(id)
                      /\ \A s \in DOMAIN sessions : sessions'[s] = sessions[s]]_vars

\* C38 witness: a session that holds a message is in the store; one call with
\* an id the store did not hold was given a session under another id, one
\* call with a known id was given that session.
C38_Witness ==
    \E r, q \in ChatRequests :
        /\ chat[r].endpoint = "get_or_create_session"
        /\ chat[r].session_id = UnknownSession
        /\ chat[r].session \in DOMAIN sessions
        /\ chat[q].endpoint = "get_or_create_session"
        /\ chat[q].session_id # NoSession
        /\ chat[q].session = chat[q].session_id
        /\ \E s \in DOMAIN sessions : sessions[s].messages # <<>>

\* The calls of add_message and of the listing endpoint made in this step
\* with a session id that is not in the store.
CalledWithUnknown(r) ==
    /\ chat[r].pc = "idle"
    /\ chat'[r].endpoint \in {"add_message", "messages"}
    /\ chat'[r].session_id \notin DOMAIN sessions

\* C39: add_message and get_messages with a session id that is not in the
\* store fail with the not-found error and leave the store as it is: no
\* session is created, no message is added.  The listing endpoint answers 404.
C39_UnknownSessionNotFound ==
    [][\A r \in ChatRequests :
          CalledWithUnknown(r) =>
             /\ sessions' = sessions
             /\ chat'[r].error = "not found"
             /\ chat'[r].pc \in {"raised", "failed"}
             /\ chat'[r].endpoint = "messages" => chat'[r].status_code = 404]_vars

\* C39 witness: with a session in the store, add_message has raised for an
\* unknown id and the listing endpoint has answered 404.
C39_Witness ==
    \E r, q \in ChatRequests :
        /\ sessions # <<>>
        /\ chat[r].endpoint = "add_message"
        /\ chat[r].pc = "raised"
        /\ chat[r].error = "not found"
        /\ chat[q].endpoint = "messages"
        /\ chat[q].status_code = 404

\* Where the user message of request r sits in the messages of its session.
PositionOf(r) ==
    LET messages == sessions[chat[r].session].messages IN
    CHOOSE i \in 1..Len(messages) :
        messages[i].role = "user" /\ messages[i].content = RequestMessage(r)

\* C37: the context handed to the agents for a chat request holds the new
\* user message exactly once, as its final turn, preceded by the messages
\* stored in the session just before it, at most 9 of them, in their stored
\* order; the message just added is not in that history part.
C37_ContextEndsWithNewMessage ==
    \A r \in ChatRequests :
        chat[r].pc \in {"generating", "done"} =>
            LET context == chat[r].context
                messages == sessions[chat[r].session].messages
                k == PositionOf(r)
                h == Min(k - 1, ContextLimit - 1)
            IN  /\ Len(context) = h + 1
                /\ h <= 9
                /\ context[h + 1] = UserMessage(RequestMessage(r))
                /\ \A i \in 1..h :
                      /\ context[i] = AutogenMessage(messages[k - h + i - 1])
                      /\ context[i].content # RequestMessage(r)

\* C37 witness: a request was received on a session of more than ten messages
\* and its handler waits for the agents with a context of ten turns.
C37_Witness ==
    \E r \in ChatRequests :
        /\ chat[r].pc = "generating"
        /\ Len(sessions[chat[r].session].messages) > ContextLimit
        /\ Len(chat[r].context) = ContextLimit

====
